---- MODULE Spec2Model ----
(***************************************************************************)
(* Model of the tradeflow-backend real-time engine:                        *)
(*   - WebSocketService (app/services/websocket_service.py): the           *)
(*     symbol <-> connection registry and broadcast_to_symbol;             *)
(*   - websocket_endpoint (app/api/v1/websocket.py): the per-connection    *)
(*     handler loop;                                                       *)
(*   - the ingestion path (app/api/v1/market_data.py and                   *)
(*     app/services/market_data_service.py): receive_market_data,          *)
(*     receive_batch, store_bar, store_batch, get_bars and the             *)
(*     post-ingestion background tasks.                                    *)
(* Python dicts are functions whose DOMAIN is the set of keys.  asyncio is *)
(* single-threaded: code between two awaits is one atomic action.          *)
(***************************************************************************)
EXTENDS Integers, Sequences, FiniteSets, TLC

VARIABLES
    active_connections,   \* WebSocketService.active_connections: symbol -> set of connections
    socket_subscriptions, \* WebSocketService.socket_subscriptions: connection -> set of symbols
    bc,                   \* the broadcast_to_symbol call in progress (or the last finished one)
    pc,                   \* websocket_endpoint: position of each connection's handler
    market_data,          \* table market_data: (time, symbol, timeframe) -> row
    volume_profile,       \* table volume_profile: (time, symbol, session_start, price_level) -> row
    cache,                \* Redis: key -> the value it holds and when it expires
    background,           \* BackgroundTasks of the answered requests, one list per request
    req,                  \* the receive_market_data call in flight (between its awaits)
    response,             \* history: the last ingestion call and its HTTP outcome
    calls,                \* history: number of ingestion calls made
    idem,                 \* history: persisted state after the last undisturbed ingestion
    result,               \* the last query made and the value it returned
    clock,                \* the time, in seconds
    wrapper,              \* the call of a function wrapped with cached() in progress
    storing,              \* the store_bar call in progress (between its awaits)
    history               \* history: the writes made and the last calls of the wrapper

wsVars == <<active_connections, socket_subscriptions, bc, pc>>

mdVars == <<market_data, volume_profile, cache, background, req, response, calls, idem>>

vars == <<active_connections, socket_subscriptions, bc, pc,
          market_data, volume_profile, cache, background, req, response, calls, idem,
          result, clock, wrapper, storing, history>>

cacheVars == <<clock, wrapper, storing, history>>

----------------------------------------------------------------------------
(* Bounds *)

NumConns == 2

Conns == 1..NumConns

\* the symbols that connections follow
Symbols == {"XAUUSD", "EURUSD"}

\* the `symbols` argument of subscribe/unsubscribe: the empty list, one
\* symbol, both symbols, one symbol twice
SymLists ==
    {<< >>, <<"XAUUSD", "EURUSD">>, <<"EURUSD", "EURUSD">>}
    \cup {<<s>> : s \in Symbols}

----------------------------------------------------------------------------
(* WebSocketService: the registry operations as functions of the state     *)

Registry(ac, ss) == [ac |-> ac, ss |-> ss, raised |-> FALSE]

\* connect, after `await websocket.accept()` returned
connect(ac, ss, ws) ==
    Registry(ac, [x \in (DOMAIN ss) \cup {ws} |-> IF x = ws THEN {} ELSE ss[x]])

\* disconnect: only the symbols recorded in socket_subscriptions[ws] are visited
disconnect(ac, ss, ws) ==
    IF ws \in DOMAIN ss
    THEN LET mine == ss[ws]
             touched(s) == s \in mine /\ s \in DOMAIN ac
             keep == {s \in DOMAIN ac : ~(touched(s) /\ ac[s] \ {ws} = {})}
         IN  Registry([s \in keep |-> IF touched(s) THEN ac[s] \ {ws} ELSE ac[s]],
                      [x \in (DOMAIN ss) \ {ws} |-> ss[x]])
    ELSE Registry(ac, ss)

\* one iteration of the loop of subscribe; socket_subscriptions[ws] raises
\* KeyError for an unregistered ws, after active_connections was updated
subscribeOne(ac, ss, ws, symbol) ==
    LET ac1 == [s \in (DOMAIN ac) \cup {symbol} |->
                   IF s = symbol
                   THEN (IF symbol \in DOMAIN ac THEN ac[symbol] ELSE {}) \cup {ws}
                   ELSE ac[s]]
    IN  IF ws \in DOMAIN ss
        THEN [ac |-> ac1,
              ss |-> [ss EXCEPT ![ws] = @ \cup {symbol}],
              raised |-> FALSE]
        ELSE [ac |-> ac1, ss |-> ss, raised |-> TRUE]

RECURSIVE subscribeFrom(_, _, _, _, _)
subscribeFrom(ac, ss, ws, symbols, i) ==
    IF i > Len(symbols)
    THEN Registry(ac, ss)
    ELSE LET r == subscribeOne(ac, ss, ws, symbols[i])
         IN  IF r.raised THEN r
             ELSE subscribeFrom(r.ac, r.ss, ws, symbols, i + 1)

subscribe(ac, ss, ws, symbols) == subscribeFrom(ac, ss, ws, symbols, 1)

\* one iteration of the loop of unsubscribe; an emptied set stays in the dict
unsubscribeOne(ac, ss, ws, symbol) ==
    Registry(IF symbol \in DOMAIN ac
                THEN [ac EXCEPT ![symbol] = @ \ {ws}]
                ELSE ac,
             IF ws \in DOMAIN ss
                THEN [ss EXCEPT ![ws] = @ \ {symbol}]
                ELSE ss)

RECURSIVE unsubscribeFrom(_, _, _, _, _)
unsubscribeFrom(ac, ss, ws, symbols, i) ==
    IF i > Len(symbols)
    THEN Registry(ac, ss)
    ELSE LET r == unsubscribeOne(ac, ss, ws, symbols[i])
         IN  unsubscribeFrom(r.ac, r.ss, ws, symbols, i + 1)

unsubscribe(ac, ss, ws, symbols) == unsubscribeFrom(ac, ss, ws, symbols, 1)

\* the connections listed under a symbol
Subscribers(ac, symbol) == IF symbol \in DOMAIN ac THEN ac[symbol] ELSE {}

----------------------------------------------------------------------------
(* broadcast_to_symbol                                                     *)

NoBroadcast ==
    [state |-> "idle", symbol |-> "", subscribed |-> {}, pending |-> {},
     sent |-> [c \in Conns |-> 0], failed |-> {}, raised |-> FALSE]

\* the list comprehension over active_connections[symbol]: one send per
\* member of the set as it is when the call starts
BroadcastTargets(ac, symbol) ==
    IF symbol \in DOMAIN ac THEN ac[symbol] ELSE {}

\* asyncio.gather(*tasks, return_exceptions=True): an exception of one send
\* becomes that send's result, the other sends go on
OnSendFailureAbort(b, c) ==
    [b EXCEPT !.sent[c] = @ + 1, !.failed = @ \cup {c},
              !.pending = {}, !.raised = TRUE]

OnSendFailure(b, c) ==
    [b EXCEPT !.sent[c] = @ + 1, !.failed = @ \cup {c},
              !.pending = @ \ {c}]

OnSendSuccess(b, c) ==
    [b EXCEPT !.sent[c] = @ + 1, !.pending = @ \ {c}]

----------------------------------------------------------------------------
(* Registry calls made in any order by any caller                          *)

SetRegistry(r) ==
    /\ active_connections' = r.ac
    /\ socket_subscriptions' = r.ss

\* connect: `await websocket.accept()` may raise before anything is recorded
Connect(c) ==
    \E accepted \in BOOLEAN :
        /\ IF accepted
              THEN SetRegistry(connect(active_connections, socket_subscriptions, c))
              ELSE UNCHANGED <<active_connections, socket_subscriptions>>
        /\ UNCHANGED <<bc, pc>>
        /\ UNCHANGED mdVars
        /\ UNCHANGED result
    /\ UNCHANGED cacheVars

Disconnect(c) ==
    /\ SetRegistry(disconnect(active_connections, socket_subscriptions, c))
    /\ UNCHANGED <<bc, pc>>
    /\ UNCHANGED mdVars
    /\ UNCHANGED result
    /\ UNCHANGED cacheVars

Subscribe(c, symbols) ==
    LET r == subscribe(active_connections, socket_subscriptions, c, symbols)
    IN  /\ SetRegistry(r)
        /\ UNCHANGED <<bc, pc>>
        /\ UNCHANGED mdVars
        /\ UNCHANGED result
    /\ UNCHANGED cacheVars

Unsubscribe(c, symbols) ==
    LET r == unsubscribe(active_connections, socket_subscriptions, c, symbols)
    IN  /\ SetRegistry(r)
        /\ UNCHANGED <<bc, pc>>
        /\ UNCHANGED mdVars
        /\ UNCHANGED result
    /\ UNCHANGED cacheVars

\* broadcast_to_symbol up to its only await: the sends are created from the
\* subscriber set as it is now; without a target the call returns at once
StartBroadcastConnected(symbol) ==
    LET targets == DOMAIN socket_subscriptions
    IN  [NoBroadcast EXCEPT
            !.state = IF targets = {} THEN "done" ELSE "sending",
            !.symbol = symbol,
            !.subscribed = Subscribers(active_connections, symbol),
            !.pending = targets]

StartBroadcast(symbol) ==
    LET targets == BroadcastTargets(active_connections, symbol)
    IN  [NoBroadcast EXCEPT
            !.state = IF targets = {} THEN "done" ELSE "sending",
            !.symbol = symbol,
            !.subscribed = Subscribers(active_connections, symbol),
            !.pending = targets]

BroadcastStart(symbol) ==
    /\ bc.state \in {"idle", "done"}
    /\ bc' = StartBroadcast(symbol)
    /\ UNCHANGED <<active_connections, socket_subscriptions, pc>>
    /\ UNCHANGED mdVars
    /\ UNCHANGED result
    /\ UNCHANGED cacheVars

\* one connection.send_text(json_message) of the gather runs; it may raise
BroadcastSend(c) ==
    /\ bc.state = "sending"
    /\ c \in bc.pending
    /\ \E delivered \in BOOLEAN :
          bc' = IF delivered THEN OnSendSuccess(bc, c) ELSE OnSendFailure(bc, c)
    /\ UNCHANGED <<active_connections, socket_subscriptions, pc>>
    /\ UNCHANGED mdVars
    /\ UNCHANGED result
    /\ UNCHANGED cacheVars

\* the gather is over: broadcast_to_symbol returns (or raises) to its caller
BroadcastReturn ==
    /\ bc.state = "sending"
    /\ bc.pending = {}
    /\ bc' = [bc EXCEPT !.state = "done"]
    /\ UNCHANGED <<active_connections, socket_subscriptions, pc>>
    /\ UNCHANGED mdVars
    /\ UNCHANGED result
    /\ UNCHANGED cacheVars

----------------------------------------------------------------------------
(* websocket_endpoint: one handler per connection                          *)

\* what receive_text() can deliver to the handler loop
Messages ==
    {[kind |-> "close", symbols |-> <<>>],    \* WebSocketDisconnect is raised
     [kind |-> "ping", symbols |-> <<>>],
     [kind |-> "invalid", symbols |-> <<>>]}  \* json.loads or the handling raises
    \cup {[kind |-> k, symbols |-> l] : k \in {"subscribe", "unsubscribe"}, l \in SymLists}

\* manager.connect(websocket), before the try block
Accept(c) ==
    /\ pc[c] = "new"
    /\ \E accepted \in BOOLEAN :
          IF accepted
          THEN /\ SetRegistry(connect(active_connections, socket_subscriptions, c))
               /\ pc' = [pc EXCEPT ![c] = "receive"]
          ELSE /\ pc' = [pc EXCEPT ![c] = "ended"]
               /\ UNCHANGED <<active_connections, socket_subscriptions>>
    /\ UNCHANGED bc
    /\ UNCHANGED mdVars
    /\ UNCHANGED result
    /\ UNCHANGED cacheVars

\* `data = await websocket.receive_text()` and the handling up to the next await
Receive(c) ==
    /\ pc[c] = "receive"
    /\ \E m \in Messages :
          CASE m.kind = "close" ->
                 /\ SetRegistry(disconnect(active_connections, socket_subscriptions, c))
                 /\ pc' = [pc EXCEPT ![c] = "ended"]
            [] m.kind = "subscribe" ->
                 LET r == subscribe(active_connections, socket_subscriptions, c, m.symbols)
                 IN  /\ SetRegistry(r)
                     /\ pc' = [pc EXCEPT ![c] = IF r.raised THEN "error_reply" ELSE "reply"]
            [] m.kind = "unsubscribe" ->
                 LET r == unsubscribe(active_connections, socket_subscriptions, c, m.symbols)
                 IN  /\ SetRegistry(r)
                     /\ pc' = [pc EXCEPT ![c] = "reply"]
            [] m.kind = "ping" ->
                 /\ pc' = [pc EXCEPT ![c] = "reply"]
                 /\ UNCHANGED <<active_connections, socket_subscriptions>>
            [] m.kind = "invalid" ->
                 /\ pc' = [pc EXCEPT ![c] = "error_reply"]
                 /\ UNCHANGED <<active_connections, socket_subscriptions>>
    /\ UNCHANGED bc
    /\ UNCHANGED mdVars
    /\ UNCHANGED result
    /\ UNCHANGED cacheVars

\* the send_json of an acknowledgement or pong, inside the inner try: any
\* exception it raises is caught by `except Exception`, which replies again
SendReply(c) ==
    /\ pc[c] = "reply"
    /\ \E sent \in BOOLEAN :
          pc' = [pc EXCEPT ![c] = IF sent THEN "receive" ELSE "error_reply"]
    /\ UNCHANGED <<active_connections, socket_subscriptions, bc>>
    /\ UNCHANGED mdVars
    /\ UNCHANGED result
    /\ UNCHANGED cacheVars

\* where an exception raised by send_json inside an except clause ends up:
\* only WebSocketDisconnect reaches the outer handler that calls disconnect
SendOutcomes == {"sent", "WebSocketDisconnect", "RuntimeError"}

\* the send_json of an error reply, inside an except clause of the inner try
SendErrorReply(c) ==
    /\ pc[c] = "error_reply"
    /\ \E outcome \in SendOutcomes :
          CASE outcome = "sent" ->
                 /\ pc' = [pc EXCEPT ![c] = "receive"]
                 /\ UNCHANGED <<active_connections, socket_subscriptions>>
            [] outcome = "WebSocketDisconnect" ->
                 /\ SetRegistry(disconnect(active_connections, socket_subscriptions, c))
                 /\ pc' = [pc EXCEPT ![c] = "ended"]
            [] outcome = "RuntimeError" ->
                 /\ pc' = [pc EXCEPT ![c] = "ended"]
                 /\ UNCHANGED <<active_connections, socket_subscriptions>>
    /\ UNCHANGED bc
    /\ UNCHANGED mdVars
    /\ UNCHANGED result
    /\ UNCHANGED cacheVars

----------------------------------------------------------------------------
(* Ingestion: payloads                                                     *)

MaxCalls == 2
MaxBatch == 1

\* Optional[...] = None, and SQL NULL
None == -1

\* the symbol the posted bars are for
BarSymbols == {"EURUSD"}

\* timestamps are seconds since 2025-01-01 00:00:00, the default timestamp
\* of the fallback path

DefaultTimestamp == 0

\* '2025-11-26 21:17:14' is the Sierra Chart format, ISO 8601 the other one
\* that parse_timestamp accepts
Stamp(fmt, t) == [fmt |-> fmt, t |-> t]

\* the values of a bar: two deliveries that differ in every field but close
Values(v) ==
    IF v = 1
    THEN [open |-> 10, high |-> 12, low |-> 9, close |-> 11, volume |-> 5,
          bid_volume |-> 2, ask_volume |-> 3, number_of_trades |-> 4,
          open_interest |-> None]
    ELSE [open |-> 11, high |-> 13, low |-> 10, close |-> 11, volume |-> 7,
          bid_volume |-> None, ask_volume |-> None, number_of_trades |-> None,
          open_interest |-> 1]

\* a JSON object that SierraChartBar(**raw_data) accepts
BarPayload(symbol, stamp, seconds_per_bar, v) ==
    [timestamp |-> stamp,
     open |-> Values(v).open, high |-> Values(v).high, low |-> Values(v).low,
     close |-> Values(v).close, volume |-> Values(v).volume,
     bid_volume |-> Values(v).bid_volume, ask_volume |-> Values(v).ask_volume,
     number_of_trades |-> Values(v).number_of_trades,
     open_interest |-> Values(v).open_interest,
     chart_info |-> [symbol |-> symbol, chart_number |-> 1,
                     seconds_per_bar |-> seconds_per_bar]]

\* the bars posted: two deliveries for one instant, a bar one second later
\* and a one-minute bar
ValidBars ==
    {BarPayload(s, Stamp("sierra", 59), 1, v) : s \in BarSymbols, v \in {1, 2}}
    \cup {BarPayload(s, Stamp("sierra", 60), 1, 1) : s \in BarSymbols}
    \cup {BarPayload(s, Stamp("sierra", 59), 60, 1) : s \in BarSymbols}

\* JSON objects that SierraChartBar(**raw_data) rejects: no chart_info, with
\* or without prices, with a timestamp strptime cannot read, or no known key
InvalidPayloads ==
    {[symbol |-> s, timestamp |-> Stamp("sierra", 59), open |-> 1, high |-> 1,
      low |-> 1, close |-> 1, volume |-> 1] : s \in BarSymbols}
    \cup {[symbol |-> s, timestamp |-> Stamp("sierra", 59)] : s \in BarSymbols}
    \cup {[symbol |-> s, timestamp |-> Stamp("garbled", 0), open |-> 1, high |-> 1,
           low |-> 1, close |-> 1, volume |-> 1] : s \in BarSymbols}
    \cup {[comment |-> "hello"]}

RawInputs == ValidBars \cup InvalidPayloads

\* the `data` of a SierraChartBatch: validated bars
BatchInputs == UNION {[1..n -> ValidBars] : n \in 0..MaxBatch}

----------------------------------------------------------------------------
(* Ingestion: validation and extraction in receive_market_data             *)

\* dict.get(key, default)
Get(raw, key, default) == IF key \in DOMAIN raw THEN raw[key] ELSE default

\* SierraChartBar(**raw_data): the required fields of the model
RequiredFields == {"timestamp", "open", "high", "low", "close", "volume", "chart_info"}

Validates(raw) == RequiredFields \subseteq DOMAIN raw

\* datetime.strptime(v, "%Y-%m-%d %H:%M:%S")
strptime(stamp) ==
    IF stamp.fmt = "sierra" THEN [ok |-> TRUE, t |-> stamp.t] ELSE [ok |-> FALSE, t |-> 0]

\* SierraChartBar.parse_timestamp: strptime, else datetime.fromisoformat
parse_timestamp(stamp) ==
    IF strptime(stamp).ok THEN strptime(stamp)
    ELSE IF stamp.fmt = "iso" THEN [ok |-> TRUE, t |-> stamp.t]
    ELSE [ok |-> FALSE, t |-> 0]

\* `x or 0`
OrZero(x) == IF x = None THEN 0 ELSE x

\* f"{seconds_per_bar}s"
Timeframe(seconds_per_bar) == ToString(seconds_per_bar) \o "s"

Rejected == [ok |-> FALSE]

\* the fields taken from the validated object (lines 71-85)
ExtractValidated(raw) ==
    [ok |-> TRUE, validated |-> TRUE,
     symbol |-> raw.chart_info.symbol,
     timeframe |-> Timeframe(raw.chart_info.seconds_per_bar),
     timestamp |-> parse_timestamp(raw.timestamp).t,
     open |-> raw.open, high |-> raw.high, low |-> raw.low, close |-> raw.close,
     volume |-> raw.volume,
     bid_volume |-> OrZero(Get(raw, "bid_volume", None)),
     ask_volume |-> OrZero(Get(raw, "ask_volume", None)),
     number_of_trades |-> OrZero(Get(raw, "number_of_trades", None)),
     open_interest |-> Get(raw, "open_interest", None)]

\* the fields taken by hand after a validation error (lines 87-104)
ExtractFallback(raw) ==
    LET stamp == Get(raw, "timestamp", Stamp("sierra", DefaultTimestamp))
    IN  IF ~strptime(stamp).ok
        THEN Rejected
        ELSE [ok |-> TRUE, validated |-> FALSE,
              symbol |-> Get(raw, "symbol", "UNKNOWN"),
              timeframe |-> "1m",
              timestamp |-> strptime(stamp).t,
              open |-> Get(raw, "open", 0), high |-> Get(raw, "high", 0),
              low |-> Get(raw, "low", 0), close |-> Get(raw, "close", 0),
              volume |-> Get(raw, "volume", 0),
              bid_volume |-> Get(raw, "bid_volume", 0),
              ask_volume |-> Get(raw, "ask_volume", 0),
              number_of_trades |-> Get(raw, "number_of_trades", 0),
              open_interest |-> Get(raw, "open_interest", None)]

Extract(raw) ==
    IF Validates(raw) /\ parse_timestamp(raw.timestamp).ok
    THEN ExtractValidated(raw)
    ELSE ExtractFallback(raw)

----------------------------------------------------------------------------
(* Ingestion: the store                                                    *)

Key(bar) == <<bar.timestamp, bar.symbol, bar.timeframe>>

Row(bar) ==
    [open |-> bar.open, high |-> bar.high, low |-> bar.low, close |-> bar.close,
     volume |-> bar.volume, bid_volume |-> bar.bid_volume,
     ask_volume |-> bar.ask_volume, number_of_trades |-> bar.number_of_trades,
     open_interest |-> bar.open_interest]

Put(table, key, row) ==
    [k \in (DOMAIN table) \cup {key} |-> IF k = key THEN row ELSE table[k]]

\* INSERT ... ON CONFLICT (time, symbol, timeframe) DO NOTHING
InsertOrIgnore(table, key, row) ==
    IF key \in DOMAIN table THEN table ELSE Put(table, key, row)

\* INSERT ... ON CONFLICT (time, symbol, timeframe) DO UPDATE SET ... = EXCLUDED....
InsertOrUpdate(table, key, row) == Put(table, key, row)

\* the tuple store_batch builds for one bar of the batch (lines 63-73)
BatchTuple(bar) ==
    [symbol |-> bar.chart_info.symbol,
     timeframe |-> Timeframe(bar.chart_info.seconds_per_bar),
     timestamp |-> parse_timestamp(bar.timestamp).t,
     open |-> bar.open, high |-> bar.high, low |-> bar.low, close |-> bar.close,
     volume |-> bar.volume, bid_volume |-> bar.bid_volume,
     ask_volume |-> bar.ask_volume, number_of_trades |-> bar.number_of_trades,
     open_interest |-> bar.open_interest]

\* connection.executemany(query, data_tuples): the rows in list order
RECURSIVE executemany(_, _, _)
executemany(table, bars, i) ==
    IF i > Len(bars) THEN table
    ELSE executemany(InsertOrIgnore(table, Key(BatchTuple(bars[i])), Row(BatchTuple(bars[i]))),
                     bars, i + 1)

SecondsPerDay == 86400

\* timestamp.replace(hour=0, minute=0, second=0, microsecond=0)
SessionStart(t) == t - (t % SecondsPerDay)

\* update_volume_profile: the row adds up on a conflict
UpsertVolumeProfile(table, bar) ==
    LET key == <<bar.timestamp, bar.symbol, SessionStart(bar.timestamp), bar.close>>
        new == [volume |-> bar.volume, bid_volume |-> OrZero(bar.bid_volume),
                ask_volume |-> OrZero(bar.ask_volume)]
    IN  IF key \in DOMAIN table
        THEN [table EXCEPT ![key] =
                 [volume |-> @.volume + new.volume,
                  bid_volume |-> @.bid_volume + new.bid_volume,
                  ask_volume |-> @.ask_volume + new.ask_volume]]
        ELSE Put(table, key, new)

----------------------------------------------------------------------------
(* Ingestion: the cache                                                    *)

CacheTimeframes == {"1s", "1m"}

\* keys "market_data:<symbol>:<timeframe>" written by a cached query
CacheKeys == {<<"market_data", s, tf>> : s \in BarSymbols, tf \in CacheTimeframes}

\* redis KEYS f"market_data:{symbol}:*"
KeysMatching(keys, symbol) ==
    {k \in keys : Len(k) >= 3 /\ k[1] = "market_data" /\ k[2] = symbol}

\* RedisManager.delete_pattern
delete_pattern(table, symbol) ==
    [k \in DOMAIN table \ KeysMatching(DOMAIN table, symbol) |-> table[k]]

\* cached(ttl: int = 60, prefix: str = "")
DefaultTtl == 60

\* A Python value a wrapped function returns is a list whose items are floats
\* ([kind |-> "float"]) or rows with a datetime ([kind |-> "row"]).  A string
\* is the sequence of the segments its colons separate: "EURUSD:1m" is
\* <<"EURUSD", "1m">>.  A key is a string.

\* json.dumps(result): TypeError for a datetime, the text of an array otherwise
dumps(value) ==
    IF \E i \in 1..Len(value.items) : value.items[i].kind = "row"
    THEN [raised |-> TRUE, text |-> [json |-> "none"]]
    ELSE [raised |-> FALSE, text |-> [json |-> "array", items |-> value.items]]

\* json.loads(cached_value): an array becomes a list
loads(text) == [type |-> "list", items |-> text.items]

\* f"{k}={v}" for the keyword names and first segments in use
KwText(name, segment) ==
    CASE name = "symbol" /\ segment = "EURUSD" -> "symbol=EURUSD"
      [] name = "timeframe" /\ segment = "1m" -> "timeframe=1m"

\* sorted(kwargs.items()): 'symbol' sorts before 'timeframe'
NameRank(name) == IF name = "symbol" THEN 1 ELSE 2

sorted(kwargs) ==
    [i \in 1..Len(kwargs) |->
        kwargs[CHOOSE j \in 1..Len(kwargs) :
                   Cardinality({k \in 1..Len(kwargs) :
                                   NameRank(kwargs[k][1]) < NameRank(kwargs[j][1])}) = i - 1]]

\* ":".join(key_parts)
RECURSIVE join(_)
join(key_parts) ==
    IF key_parts = << >> THEN << >> ELSE Head(key_parts) \o join(Tail(key_parts))

\* cache_key(*args, **kwargs): str(arg) for the positional arguments, then
\* f"{k}={v}" for the keyword arguments sorted by name, joined by ":"
cache_key(args, kwargs) ==
    join(args \o [i \in 1..Len(kwargs) |->
                     <<KwText(sorted(kwargs)[i][1], Head(sorted(kwargs)[i][2]))>>
                         \o Tail(sorted(kwargs)[i][2])])

\* key = f"{prefix}:{cache_key(*args, **kwargs)}" if prefix else cache_key(...)
wrapper_key(prefix, call) ==
    IF prefix # "" THEN <<prefix>> \o cache_key(call.args, call.kwargs)
    ELSE cache_key(call.args, call.kwargs)

\* the positional call that gives a key "market_data:<symbol>:<timeframe>"
KeyCall(key) == [args |-> <<<<key[2]>>, <<key[3]>>>>, kwargs |-> << >>]

----------------------------------------------------------------------------
(* get_bars                                                                *)

\* the default of the `limit` parameter
DefaultLimit == 500

\* _parse_timeframe, in seconds
parse_timeframe_minute_as_second(timeframe) ==
    CASE timeframe = "1s" -> 1
      [] timeframe = "1m" -> 1
      [] timeframe = "5m" -> 300
      [] timeframe = "15m" -> 900
      [] timeframe = "1h" -> 3600
      [] timeframe = "4h" -> 14400
      [] timeframe = "1d" -> 86400
      [] OTHER -> 60

parse_timeframe(timeframe) ==
    CASE timeframe = "1s" -> 1
      [] timeframe = "1m" -> 60
      [] timeframe = "5m" -> 300
      [] timeframe = "15m" -> 900
      [] timeframe = "1h" -> 3600
      [] timeframe = "4h" -> 14400
      [] timeframe = "1d" -> 86400
      [] OTHER -> 60

MaxOf(S) == CHOOSE x \in S : \A y \in S : y <= x

MinOf(S) == CHOOSE x \in S : \A y \in S : x <= y

\* ORDER BY ... DESC, by halving the range of the values
RECURSIVE Ascending(_)
Ascending(S) ==
    IF S = {} THEN << >>
    ELSE IF Cardinality(S) = 1 THEN <<CHOOSE x \in S : TRUE>>
    ELSE LET mid == (MinOf(S) + MaxOf(S)) \div 2
         IN  Ascending({x \in S : x <= mid}) \o Ascending({x \in S : x > mid})

RECURSIVE Descending(_)
Descending(S) ==
    IF S = {} THEN << >>
    ELSE IF Cardinality(S) = 1 THEN <<CHOOSE x \in S : TRUE>>
    ELSE LET mid == (MinOf(S) + MaxOf(S)) \div 2
         IN  Descending({x \in S : x > mid}) \o Descending({x \in S : x <= mid})

\* LIMIT n
Limit(rows, n) == SubSeq(rows, 1, IF n < Len(rows) THEN n ELSE Len(rows))

\* sum(column) over the rows of a group: NULLs are skipped, the sum of no
\* value is NULL
RECURSIVE SumColumn(_, _, _)
SumColumn(table, keys, column) ==
    IF keys = {} THEN None
    ELSE IF Cardinality(keys) = 1 THEN table[CHOOSE k \in keys : TRUE][column]
    ELSE LET mid == (MinOf({k[1] : k \in keys}) + MaxOf({k[1] : k \in keys})) \div 2
             left == SumColumn(table, {k \in keys : k[1] <= mid}, column)
             right == SumColumn(table, {k \in keys : k[1] > mid}, column)
         IN  IF left = None THEN right
             ELSE IF right = None THEN left ELSE left + right

\* time_bucket(interval, time)
time_bucket_end(interval, t) == t - (t % interval) + interval

time_bucket(interval, t) == t - (t % interval)

\* the rows of `WHERE symbol = $1 AND timeframe = $2`
RowsOf(table, symbol, timeframe) ==
    {k \in DOMAIN table : k[2] = symbol /\ k[3] = timeframe}

\* the raw branch: SELECT * ... ORDER BY time DESC LIMIT $3
RawBars(table, symbol, timeframe, limit) ==
    LET keys == RowsOf(table, symbol, timeframe)
        times == Limit(Descending({k[1] : k \in keys}), limit)
    IN  [i \in 1..Len(times) |->
            LET r == table[<<times[i], symbol, timeframe>>]
            IN  [time |-> times[i], symbol |-> symbol, timeframe |-> timeframe,
                 open |-> r.open, high |-> r.high, low |-> r.low, close |-> r.close,
                 volume |-> r.volume, bid_volume |-> r.bid_volume,
                 ask_volume |-> r.ask_volume,
                 number_of_trades |-> r.number_of_trades,
                 open_interest |-> r.open_interest]]

\* the aggregated branch with buckets of one hour whatever the timeframe
AggregatedBarsOfHours(table, symbol, timeframe, limit) ==
    LET interval == parse_timeframe("1h")
        keys == RowsOf(table, symbol, "1s")
        buckets == Limit(Descending({time_bucket(interval, k[1]) : k \in keys}), limit)
        members(b) == {k \in keys : time_bucket(interval, k[1]) = b}
        first(b) == table[<<MinOf({k[1] : k \in members(b)}), symbol, "1s">>]
        last(b) == table[<<MaxOf({k[1] : k \in members(b)}), symbol, "1s">>]
    IN  [i \in 1..Len(buckets) |->
            LET b == buckets[i]
            IN  [time |-> b, symbol |-> symbol, timeframe |-> timeframe,
                 open |-> first(b).open,
                 high |-> MaxOf({table[k].high : k \in members(b)}),
                 low |-> MinOf({table[k].low : k \in members(b)}),
                 close |-> last(b).close,
                 volume |-> SumColumn(table, members(b), "volume"),
                 bid_volume |-> SumColumn(table, members(b), "bid_volume"),
                 ask_volume |-> SumColumn(table, members(b), "ask_volume"),
                 number_of_trades |-> SumColumn(table, members(b), "number_of_trades"),
                 open_interest |-> last(b).open_interest]]

\* the aggregated branch: GROUP BY time_bucket over the '1s' rows
AggregatedBars(table, symbol, timeframe, limit) ==
    LET interval == parse_timeframe(timeframe)
        keys == RowsOf(table, symbol, "1s")
        buckets == Limit(Descending({time_bucket(interval, k[1]) : k \in keys}), limit)
        members(b) == {k \in keys : time_bucket(interval, k[1]) = b}
        first(b) == table[<<MinOf({k[1] : k \in members(b)}), symbol, "1s">>]
        last(b) == table[<<MaxOf({k[1] : k \in members(b)}), symbol, "1s">>]
    IN  [i \in 1..Len(buckets) |->
            LET b == buckets[i]
            IN  [time |-> b, symbol |-> symbol, timeframe |-> timeframe,
                 open |-> first(b).open,
                 high |-> MaxOf({table[k].high : k \in members(b)}),
                 low |-> MinOf({table[k].low : k \in members(b)}),
                 close |-> last(b).close,
                 volume |-> SumColumn(table, members(b), "volume"),
                 bid_volume |-> SumColumn(table, members(b), "bid_volume"),
                 ask_volume |-> SumColumn(table, members(b), "ask_volume"),
                 number_of_trades |-> SumColumn(table, members(b), "number_of_trades"),
                 open_interest |-> last(b).open_interest]]

get_bars(table, symbol, timeframe, limit) ==
    IF timeframe = "1s"
    THEN RawBars(table, symbol, timeframe, limit)
    ELSE AggregatedBars(table, symbol, timeframe, limit)

----------------------------------------------------------------------------
(* Ingestion state *)

NoRequest == [stage |-> "none"]

NoResponse == [op |-> "none", status |-> "none", bars |-> << >>]

NoIdem == [phase |-> "none"]

InitWS ==
    /\ active_connections = << >>
    /\ socket_subscriptions = << >>
    /\ bc = NoBroadcast
    /\ pc = [c \in Conns |-> "new"]

InitMD ==
    /\ market_data = << >>
    /\ volume_profile = << >>
    /\ cache = << >>
    /\ background = << >>
    /\ req = NoRequest
    /\ response = NoResponse
    /\ calls = 0
    /\ idem = NoIdem

NoResult == [op |-> "none"]

NoCall == [args |-> << >>, kwargs |-> << >>]

NoValue == [type |-> "none", items |-> << >>]

NoWrapper == [pc |-> "none"]

NoStoring == [pc |-> "idle"]

\* no write made, no pair of wrapper calls under observation
NoHistory ==
    [writes |-> << >>, phase |-> "none", call |-> NoCall, first |-> NoValue,
     second |-> NoValue, invoked |-> 0, disturbed |-> FALSE, raised |-> FALSE]

\* no function is wrapped with cached() and no store_bar call is under way
InitCache ==
    /\ clock = 0
    /\ wrapper = NoWrapper
    /\ storing = NoStoring
    /\ history = NoHistory

Init == InitWS /\ InitMD /\ result = NoResult /\ InitCache

----------------------------------------------------------------------------
(* Ingestion: receive_market_data, its background tasks, receive_batch     *)

Quiescent == req = NoRequest /\ background = << >>

Answer(op, status, bars) == [op |-> op, status |-> status, bars |-> bars]

RemoveAt(seq, i) == SubSeq(seq, 1, i - 1) \o SubSeq(seq, i + 1, Len(seq))

\* receive_market_data up to the end of the INSERT of store_bar:
\* the payload is validated or read by hand, then written; any exception
\* becomes a 422 answer
ReceiveStore(raw) ==
    /\ req = NoRequest
    /\ calls < MaxCalls
    /\ calls' = calls + 1
    /\ \E written \in BOOLEAN :
          LET bar == Extract(raw)
          IN  IF bar.ok /\ written
              THEN /\ market_data' = InsertOrUpdate(market_data, Key(bar), Row(bar))
                   /\ req' = [stage |-> "stored", raw |-> raw, bar |-> bar]
                   /\ idem' = IF ~Quiescent THEN NoIdem
                              ELSE IF idem.phase \in {"once", "twice"} /\ idem.raw = raw
                                   THEN [idem EXCEPT !.phase = "again"]
                                   ELSE [phase |-> "first", raw |-> raw]
                   /\ UNCHANGED response
              ELSE /\ response' = Answer("single", "error", << >>)
                   /\ UNCHANGED <<market_data, req, idem>>
    /\ UNCHANGED <<volume_profile, cache, background>>
    /\ UNCHANGED wsVars
    /\ UNCHANGED result
    /\ UNCHANGED cacheVars

\* the rest of store_bar and of receive_market_data: the cache keys of the
\* symbol are deleted, the three tasks are added and the call answers
ReceiveFinish ==
    /\ req # NoRequest
    /\ \E deleted \in BOOLEAN :
          IF deleted
          THEN /\ cache' = delete_pattern(cache, req.bar.symbol)
               /\ background' = Append(background, [bar |-> req.bar, next |-> 1])
               /\ response' = Answer("single", "success", <<req.bar>>)
               /\ UNCHANGED idem
          ELSE /\ response' = Answer("single", "error", << >>)
               /\ idem' = NoIdem
               /\ UNCHANGED <<cache, background>>
    /\ req' = NoRequest
    /\ UNCHANGED <<market_data, volume_profile, calls>>
    /\ UNCHANGED wsVars
    /\ UNCHANGED result
    /\ UNCHANGED cacheVars

\* the tasks of one request run in the order they were added, after the
\* answer; an exception in one of them drops the tasks after it
TaskNames == <<"aggregate_to_higher_timeframes", "update_volume_profile", "broadcast_tick">>

\* aggregate_to_higher_timeframes: pass
RunAggregate(i) ==
    /\ i \in 1..Len(background)
    /\ TaskNames[background[i].next] = "aggregate_to_higher_timeframes"
    /\ background' = [background EXCEPT ![i].next = 2]
    /\ UNCHANGED <<market_data, volume_profile, cache, req, response, calls, idem>>
    /\ UNCHANGED wsVars
    /\ UNCHANGED result
    /\ UNCHANGED cacheVars

RunUpdateVolumeProfileFailingCall(i) ==
    /\ i \in 1..Len(background)
    /\ TaskNames[background[i].next] = "update_volume_profile"
    /\ \E written \in BOOLEAN :
          IF written
          THEN /\ volume_profile' = UpsertVolumeProfile(volume_profile, background[i].bar)
               /\ background' = [background EXCEPT ![i].next = 3]
               /\ UNCHANGED <<idem, response>>
          ELSE /\ background' = RemoveAt(background, i)
               /\ idem' = NoIdem
               /\ response' = Answer("single", "error", << >>)
               /\ UNCHANGED volume_profile
    /\ UNCHANGED <<market_data, cache, req, calls>>
    /\ UNCHANGED wsVars
    /\ UNCHANGED result
    /\ UNCHANGED cacheVars

RunUpdateVolumeProfile(i) ==
    /\ i \in 1..Len(background)
    /\ TaskNames[background[i].next] = "update_volume_profile"
    /\ \E written \in BOOLEAN :
          IF written
          THEN /\ volume_profile' = UpsertVolumeProfile(volume_profile, background[i].bar)
               /\ background' = [background EXCEPT ![i].next = 3]
               /\ UNCHANGED idem
          ELSE /\ background' = RemoveAt(background, i)
               /\ idem' = NoIdem
               /\ UNCHANGED volume_profile
    /\ UNCHANGED <<market_data, cache, req, response, calls>>
    /\ UNCHANGED wsVars
    /\ UNCHANGED result
    /\ UNCHANGED cacheVars

\* broadcast_tick: broadcast_to_symbol(symbol, {...}); the sends, if any,
\* are the steps BroadcastSend
RunBroadcastTick(i) ==
    /\ i \in 1..Len(background)
    /\ TaskNames[background[i].next] = "broadcast_tick"
    /\ bc.state \in {"idle", "done"}
    /\ bc' = StartBroadcast(background[i].bar.symbol)
    /\ background' = RemoveAt(background, i)
    /\ idem' = IF Len(background) = 1 /\ req = NoRequest /\ idem.phase \in {"first", "again"}
               THEN [phase |-> IF idem.phase = "first" THEN "once" ELSE "twice",
                     raw |-> idem.raw,
                     market_data |-> IF idem.phase = "first" THEN market_data
                                     ELSE idem.market_data,
                     volume_profile |-> IF idem.phase = "first" THEN volume_profile
                                        ELSE idem.volume_profile]
               ELSE NoIdem
    /\ UNCHANGED <<market_data, volume_profile, cache, req, response, calls>>
    /\ UNCHANGED <<active_connections, socket_subscriptions, pc>>
    /\ UNCHANGED result
    /\ UNCHANGED cacheVars

\* receive_batch: store_batch writes the bars in one executemany
ReceiveBatch(bars) ==
    /\ calls < MaxCalls
    /\ calls' = calls + 1
    /\ \E written \in BOOLEAN :
          IF bars = << >>
          THEN /\ response' = Answer("batch", "empty", << >>)
               /\ UNCHANGED <<market_data, idem>>
          ELSE IF written
          THEN /\ market_data' = executemany(market_data, bars, 1)
               /\ response' = Answer("batch", "success",
                                     [i \in 1..Len(bars) |-> BatchTuple(bars[i])])
               /\ idem' = NoIdem
          ELSE /\ response' = Answer("batch", "error", << >>)
               /\ UNCHANGED <<market_data, idem>>
    /\ UNCHANGED <<volume_profile, cache, background, req>>
    /\ UNCHANGED wsVars
    /\ UNCHANGED result
    /\ UNCHANGED cacheVars

\* a cached query stores its result under the key of its arguments
CachePopulate(key) ==
    /\ key \notin DOMAIN cache
    /\ cache' = Put(cache, key, [value |-> dumps([type |-> "list", items |-> << >>]).text,
                                  expires |-> clock + DefaultTtl,
                                  call |-> KeyCall(key), seen |-> {}])
    /\ UNCHANGED <<market_data, volume_profile, background, req, response, calls, idem>>
    /\ UNCHANGED wsVars
    /\ UNCHANGED result
    /\ UNCHANGED cacheVars

----------------------------------------------------------------------------
(* Specifications *)

\* the registry driven by arbitrary calls, with broadcasts in between
NextRegistry ==
    \/ \E c \in Conns : Connect(c)
    \/ \E c \in Conns : Disconnect(c)
    \/ \E c \in Conns, l \in SymLists : Subscribe(c, l)
    \/ \E c \in Conns, l \in SymLists : Unsubscribe(c, l)
    \/ \E s \in Symbols : BroadcastStart(s)
    \/ \E c \in Conns : BroadcastSend(c)
    \/ BroadcastReturn

SpecRegistry == Init /\ [][NextRegistry]_vars

\* the registry driven by the websocket handlers, with broadcasts in between
NextEndpoint ==
    \/ \E c \in Conns : Accept(c)
    \/ \E c \in Conns : Receive(c)
    \/ \E c \in Conns : SendReply(c)
    \/ \E c \in Conns : SendErrorReply(c)
    \/ \E s \in Symbols : BroadcastStart(s)
    \/ \E c \in Conns : BroadcastSend(c)
    \/ BroadcastReturn

SpecEndpoint == Init /\ [][NextEndpoint]_vars

\* ingestion calls, their background tasks and cached queries
NextIngest ==
    \/ \E raw \in RawInputs : ReceiveStore(raw)
    \/ ReceiveFinish
    \/ \E i \in 1..MaxCalls : RunAggregate(i)
    \/ \E i \in 1..MaxCalls : RunUpdateVolumeProfile(i)
    \/ \E i \in 1..MaxCalls : RunBroadcastTick(i)
    \/ \E bars \in BatchInputs : ReceiveBatch(bars)
    \/ \E key \in CacheKeys : CachePopulate(key)

SpecIngest == Init /\ [][NextIngest]_vars

\* the bar posted, and posted again, while subscribers are connected
FanoutInputs == {BarPayload(s, Stamp("sierra", 59), 1, 1) : s \in BarSymbols}

\* single-bar ingestion with subscribers of the bar's symbol: the calls, their
\* background tasks and the sends of broadcast_to_symbol
NextFanout ==
    \/ \E c \in Conns : Connect(c)
    \/ \E c \in Conns, s \in BarSymbols : Subscribe(c, <<s>>)
    \/ \E raw \in FanoutInputs : ReceiveStore(raw)
    \/ ReceiveFinish
    \/ \E i \in 1..MaxCalls : RunAggregate(i)
    \/ \E i \in 1..MaxCalls : RunUpdateVolumeProfile(i)
    \/ \E i \in 1..MaxCalls : RunBroadcastTick(i)
    \/ \E c \in Conns : BroadcastSend(c)
    \/ BroadcastReturn

SpecFanout == Init /\ [][NextFanout]_vars

\* the event loop runs what is ready: a request past its INSERT goes on to its
\* answer, the tasks of an answered request are awaited one after the other,
\* a broadcast goes on to its next send and returns.  Whether a database call
\* succeeds is not part of it
FairFanout ==
    /\ WF_vars(ReceiveFinish)
    /\ WF_vars(\E i \in 1..MaxCalls : RunAggregate(i))
    /\ WF_vars(\E i \in 1..MaxCalls : RunUpdateVolumeProfile(i))
    /\ WF_vars(\E i \in 1..MaxCalls : RunBroadcastTick(i))
    /\ WF_vars(\E c \in Conns : BroadcastSend(c))
    /\ WF_vars(BroadcastReturn)

SpecFanoutFair == Init /\ [][NextFanout]_vars /\ FairFanout

----------------------------------------------------------------------------
(* Queries on a populated store                                            *)

\* the row stored for second t: the columns differ from second to second,
\* bid_volume, ask_volume, number_of_trades and open_interest may be NULL
SampleRow(t) ==
    [open |-> 100 + (t % 7), high |-> 108 + (t % 3), low |-> 99 - (t % 5),
     close |-> 100 + (t % 4), volume |-> 1 + (t % 6),
     bid_volume |-> IF t % 2 = 0 THEN None ELSE t % 5,
     ask_volume |-> IF t % 2 = 0 THEN None ELSE t % 3,
     number_of_trades |-> IF t % 3 = 0 THEN None ELSE 1 + (t % 2),
     open_interest |-> IF t % 4 = 0 THEN None ELSE t % 9]

\* seconds in four one-minute buckets and two five-minute buckets
SampleTimes == {0, 59, 60, 61, 299, 300}

\* rows of another symbol and of another timeframe string
OtherKeys == {<<0, "XAUUSD", "1s">>, <<60, "EURUSD", "60s">>}

StoredKeys(times, others) ==
    {<<t, "EURUSD", "1s">> : t \in times} \cup (IF others THEN OtherKeys ELSE {})

TableOf(times, others) == [k \in StoredKeys(times, others) |-> SampleRow(k[1])]

SampleTables == {TableOf(times, others) : times \in SUBSET SampleTimes, others \in BOOLEAN}

\* sixty consecutive one-second bars from `start` on, nothing else
RunLength == 60

RunStarts == {0, 1, 30, 60}

RunTable(start) == [k \in {<<t, "EURUSD", "1s">> : t \in start..(start + RunLength - 1)} |-> SampleRow(k[1])]

RunTables == {RunTable(start) : start \in RunStarts}

QuerySymbols == {"EURUSD", "XAUUSD"}

\* the base resolution, two mapped timeframes and one _parse_timeframe does
\* not know
QueryTimeframes == {"1s", "1m", "5m", "30m"}

QueryLimits == {0, 1, 2, DefaultLimit}

InitStored ==
    /\ InitWS
    /\ market_data \in SampleTables \cup RunTables
    /\ volume_profile = << >>
    /\ cache = << >>
    /\ background = << >>
    /\ req = NoRequest
    /\ response = NoResponse
    /\ calls = 0
    /\ idem = NoIdem
    /\ result = NoResult
    /\ InitCache

\* MarketDataService.get_bars(symbol, timeframe, limit)
GetBars(symbol, timeframe, limit) ==
    /\ result' = [op |-> "get_bars", symbol |-> symbol, timeframe |-> timeframe,
                  limit |-> limit,
                  bars |-> get_bars(market_data, symbol, timeframe, limit)]
    /\ UNCHANGED wsVars
    /\ UNCHANGED mdVars
    /\ UNCHANGED cacheVars

NextAggregate ==
    \E symbol \in QuerySymbols, timeframe \in QueryTimeframes, limit \in QueryLimits :
        GetBars(symbol, timeframe, limit)

SpecAggregate == InitStored /\ [][NextAggregate]_vars

----------------------------------------------------------------------------
(* OrderFlowService.get_cvd and MarketDataService.get_cvd_data             *)

\* float quantities derived from volumes are kept in hundredths
Scale == 100

\* seconds in a minute: dt.timedelta(minutes=...)
Minute == 60

\* what the calls of random and utcnow give during one call: the start of the
\* sample cumulative delta, the sample deltas and volumes (used in turn), the
\* percentage of a volume attributed to the bid side, and the clock
Draws ==
    {[start |-> 0, deltas |-> <<50, -20>>, volumes |-> <<700, 500>>, split |-> <<45, 55>>, now |-> 6000],
     [start |-> 250, deltas |-> <<-30, 40>>, volumes |-> <<500, 900>>, split |-> <<40, 50>>, now |-> 6000],
     [start |-> -100, deltas |-> <<0, 10>>, volumes |-> <<600, 600>>, split |-> <<59, 41>>, now |-> 6000]}

\* the i-th value of a cyclic supply of draws
Drawn(seq, i) == seq[((i - 1) % Len(seq)) + 1]

\* `x or 0` on a nullable column
OrZeroColumn(x) == IF x = None THEN 0 ELSE x

\* cumulative_delta after the first i deltas: `cumulative_delta += delta`
RECURSIVE RunningSum(_, _, _)
RunningSum(deltas, i, start) ==
    IF i = 0 THEN start ELSE RunningSum(deltas, i - 1, start) + deltas[i]

\* rows.reverse()
Reverse(seq) == [i \in 1..Len(seq) |-> seq[Len(seq) + 1 - i]]

\* the timeframe_minutes table of the sample generators
timeframe_minutes(timeframe) ==
    CASE timeframe = "1m" -> 1
      [] timeframe = "5m" -> 5
      [] timeframe = "15m" -> 15
      [] timeframe = "30m" -> 30
      [] timeframe = "1h" -> 60
      [] timeframe = "4h" -> 240
      [] timeframe = "1d" -> 1440
      [] OTHER -> 1

\* the base_prices table of the sample generators, in hundredths
base_price(symbol) ==
    CASE symbol = "XAUUSD" -> 200000
      [] symbol = "EURUSD" -> 110
      [] symbol = "GBPUSD" -> 125
      [] symbol = "USDJPY" -> 15000
      [] symbol = "BTCUSD" -> 4000000
      [] OTHER -> 10000

\* _generate_sample_cvd_data: `limit` points whose cumulative delta starts
\* at random.uniform(-10000, 10000)
generate_sample_cvd_data(symbol, timeframe, limit, draw) ==
    LET n == IF limit > 0 THEN limit ELSE 0
        deltas == [i \in 1..n |-> Drawn(draw.deltas, i)]
    IN  [i \in 1..n |->
            LET volume == Drawn(draw.volumes, i)
                delta == deltas[i]
                magnitude == IF delta < 0 THEN -delta ELSE delta
                larger == (volume + magnitude) \div 2
            IN  [time |-> draw.now - Minute * timeframe_minutes(timeframe) * (limit - i),
                 delta |-> delta,
                 cumulativeDelta |-> RunningSum(deltas, i, draw.start),
                 volume |-> volume,
                 bidVolume |-> IF delta > 0 THEN volume - larger ELSE larger,
                 askVolume |-> IF delta > 0 THEN larger ELSE volume - larger,
                 price |-> base_price(symbol)]]

\* the loop of get_cvd over the fetched rows, oldest first
cvd_points(rows, draw) ==
    LET volumes ==
            [i \in 1..Len(rows) |->
                LET bid == OrZeroColumn(rows[i].bid_volume)
                    ask == OrZeroColumn(rows[i].ask_volume)
                    total == IF rows[i].volume \in {None, 0} THEN bid + ask ELSE rows[i].volume
                IN  IF bid = 0 /\ ask = 0
                    THEN [total |-> Scale * total,
                          bid |-> total * Drawn(draw.split, i),
                          ask |-> total * (Scale - Drawn(draw.split, i))]
                    ELSE [total |-> Scale * total, bid |-> Scale * bid, ask |-> Scale * ask]]
        deltas == [i \in 1..Len(rows) |-> volumes[i].ask - volumes[i].bid]
    IN  [i \in 1..Len(rows) |->
            [time |-> rows[i].time,
             delta |-> deltas[i],
             cumulativeDelta |-> RunningSum(deltas, i, 0),
             volume |-> volumes[i].total,
             bidVolume |-> volumes[i].bid,
             askVolume |-> volumes[i].ask,
             price |-> OrZeroColumn(rows[i].close)]]

\* get_cvd: the stored rows of (symbol, timeframe), newest `limit`; sample
\* data when there is none or when the fetch raises
get_cvd(table, symbol, timeframe, limit, fetched, draw) ==
    LET rows == IF fetched /\ limit >= 0
                THEN RawBars(table, symbol, timeframe, limit) ELSE << >>
    IN  IF rows = << >>
        THEN [path |-> "sample",
              value |-> generate_sample_cvd_data(symbol, timeframe, limit, draw)]
        ELSE [path |-> "rows", value |-> cvd_points(Reverse(rows), draw)]

\* get_cvd_data: one point per bucket of the '1s' rows in [start_time,
\* end_time], oldest first
get_cvd_data(table, symbol, timeframe, start_time, end_time) ==
    LET interval == parse_timeframe(timeframe)
        keys == {k \in RowsOf(table, symbol, "1s") : start_time <= k[1] /\ k[1] <= end_time}
        buckets == Ascending({time_bucket(interval, k[1]) : k \in keys})
        members(b) == {k \in keys : time_bucket(interval, k[1]) = b}
        deltas == [i \in 1..Len(buckets) |->
                      OrZeroColumn(SumColumn(table, members(buckets[i]), "ask_volume"))
                      - OrZeroColumn(SumColumn(table, members(buckets[i]), "bid_volume"))]
    IN  [i \in 1..Len(buckets) |->
            [time |-> buckets[i],
             delta |-> deltas[i],
             cumulative_delta |-> RunningSum(deltas, i, 0)]]

\* footprint prices are in hundred-thousandths, footprint volumes in
\* ten-thousandths, weights in thousandths and random factors in hundredths
PriceUnit == 100000

VolumeUnit == 10000

PerMille == 1000

Percent == 100

\* price_levels = 20, and the 20 of `(high_price - low_price) / 20`
price_levels == 20

\* what random, utcnow and the rounding of `price += price_step` give during
\* one call of get_footprint: the volume factors and bid ratios (used in
\* turn, random.random() in hundredths), whether the accumulated price still
\* is <= high after twenty steps, and for the sample bars the offset of low,
\* the position of close in the bar range (thousandths) and the level volumes
FootprintDraws ==
    {[factors |-> <<50, 99>>, ratios |-> <<0, 55>>, last_level |-> TRUE,
      gauss |-> 0, close_at |-> 500, volumes |-> <<50, 500>>, now |-> 6000],
     [factors |-> <<75, 60>>, ratios |-> <<99, 10>>, last_level |-> FALSE,
      gauss |-> -3, close_at |-> 0, volumes |-> <<275, 120>>, now |-> 6000]}

Abs(x) == IF x < 0 THEN -x ELSE x

Largest(x, y) == IF x > y THEN x ELSE y

Smallest(x, y) == IF x < y THEN x ELSE y

\* one dict of footprint_data: the bid/ask split of a level volume, the bid
\* ratio being 0.6 + random*0.2 above the close and 0.3 + random*0.2 otherwise
footprint_level(timestamp, price, close, level_volume, random) ==
    LET bid_ratio == IF price > close THEN 60 + random \div 5 ELSE 30 + random \div 5
        bid_volume == (level_volume \div Percent) * bid_ratio
        ask_volume == (level_volume \div Percent) * (Percent - bid_ratio)
    IN  [timestamp |-> timestamp,
         price |-> price,
         bidVolume |-> bid_volume,
         askVolume |-> ask_volume,
         delta |-> ask_volume - bid_volume,
         imbalanceRatio |-> IF Smallest(bid_volume, ask_volume) > 0
                            THEN (Largest(bid_volume, ask_volume) * Percent)
                                     \div Smallest(bid_volume, ask_volume)
                            ELSE Percent,
         totalVolume |-> level_volume]

\* the j-th level get_footprint emits for one fetched bar: prices from low in
\* steps of (high - low) / 20, each with the volume
\* (total_volume / 20) * volume_weight * volume_factor
bar_level(bar, draw, drawn, j) ==
    LET low_price == PriceUnit * bar.low
        close_price == PriceUnit * bar.close
        range == PriceUnit * (bar.high - bar.low)
        price_step == range \div price_levels
        total_volume == IF bar.volume \in {None, 0} THEN 1000 ELSE bar.volume
        price == low_price + (j - 1) * price_step
        price_distance == ((Abs(price - close_price) \div Percent) * PerMille)
                              \div (range \div Percent)
        volume_weight == Largest(PerMille \div 10, PerMille - price_distance)
        volume_factor == 50 + Drawn(draw.factors, drawn) \div 2
        level_volume == (((((VolumeUnit * total_volume) \div price_levels)
                              * volume_weight) \div PerMille) * volume_factor)
                            \div Percent
    IN  footprint_level(bar.time, price, close_price, level_volume,
                        Drawn(draw.ratios, drawn))

\* _generate_sample_footprint_data: range(limit) bars of twenty levels around
\* the base price of the symbol
generate_sample_footprint_data(symbol, timeframe, limit, draw) ==
    LET n == IF limit > 0 THEN limit ELSE 0
        bar_range == (base_price(symbol) * (PriceUnit \div Scale) * 2) \div PerMille
        low == base_price(symbol) * (PriceUnit \div Scale) + (draw.gauss * bar_range) \div 4
        close == low + (draw.close_at * bar_range) \div PerMille
        price_step == bar_range \div price_levels
    IN  [idx \in 1..(n * price_levels) |->
            LET i == (idx - 1) \div price_levels
                j == (idx - 1) % price_levels
                price == low + j * price_step
                distance_from_close == (Abs(price - close) * PerMille) \div bar_range
                volume_weight == Largest(PerMille \div 5, PerMille - distance_from_close)
                level_volume == ((Drawn(draw.volumes, idx) * VolumeUnit) \div PerMille)
                                    * volume_weight
            IN  footprint_level(draw.now - Minute * timeframe_minutes(timeframe) * (limit - i),
                                price, close, level_volume, Drawn(draw.ratios, idx))]

\* the loop of get_footprint over the fetched bars, newest first: the levels
\* of each bar while price <= high, in one flat list
footprint_data(bars, draw) ==
    LET count == IF draw.last_level THEN price_levels + 1 ELSE price_levels
    IN  [idx \in 1..(Len(bars) * count) |->
            bar_level(bars[((idx - 1) \div count) + 1], draw, idx, ((idx - 1) % count) + 1)]

\* get_footprint: levels made up for the stored rows of (symbol, timeframe),
\* newest `limit`; sample levels when there is no row, when the fetch raises,
\* and when a bar has high = low (the division by high - low raises)
get_footprint(table, symbol, timeframe, limit, fetched, draw) ==
    LET bars == IF fetched /\ limit >= 0
                THEN RawBars(table, symbol, timeframe, limit) ELSE << >>
    IN  IF bars = << >> \/ \E b \in 1..Len(bars) : bars[b].high = bars[b].low
        THEN [path |-> "sample",
              value |-> generate_sample_footprint_data(symbol, timeframe, limit, draw)]
        ELSE [path |-> "rows", value |-> footprint_data(bars, draw)]

\* the body of the loop over range(len(levels) - 1): the imbalances of the
\* pair (levels[i], levels[i + 1]), the buy test first, then the sell test
pair_imbalances(levels, i, ratio) ==
    LET curr == levels[i]
        next_level == levels[i + 1]
    IN  (IF curr.ask > next_level.bid * ratio /\ curr.ask > 0 /\ next_level.bid > 0
         THEN <<[type |-> "buy", price |-> curr.price, volume |-> curr.ask,
                 compared_to |-> next_level.bid]>>
         ELSE << >>)
        \o
        (IF next_level.bid > curr.ask * ratio /\ next_level.bid > 0 /\ curr.ask > 0
         THEN <<[type |-> "sell", price |-> next_level.price, volume |-> next_level.bid,
                 compared_to |-> curr.ask]>>
         ELSE << >>)

\* bar_imbalances after the pairs 1..n of the levels of one bar
RECURSIVE bar_imbalances(_, _, _)
bar_imbalances(levels, n, ratio) ==
    IF n <= 0 THEN << >>
    ELSE bar_imbalances(levels, n - 1, ratio) \o pair_imbalances(levels, n, ratio)

\* imbalances after the first n dicts of footprints; a dict without the key
\* 'levels' raises KeyError at `levels = bar['levels']`
RECURSIVE imbalances_of(_, _, _)
imbalances_of(footprints, n, ratio) ==
    IF n <= 0 THEN [raised |-> FALSE, value |-> << >>]
    ELSE LET before == imbalances_of(footprints, n - 1, ratio)
             bar == footprints[n]
         IN  IF "levels" \notin DOMAIN bar \/ before.raised
             THEN [raised |-> TRUE, value |-> << >>]
             ELSE LET found == bar_imbalances(bar.levels, Len(bar.levels) - 1, ratio)
                  IN  [raised |-> FALSE,
                       value |-> IF found = << >> THEN before.value
                                 ELSE Append(before.value,
                                             [timestamp |-> bar.timestamp,
                                              imbalances |-> found])]

\* detect_imbalances over the list get_footprint returned
detect_imbalances(footprints, ratio) == imbalances_of(footprints, Len(footprints), ratio)

\* the stores the order-flow queries run against
OrderFlowTimes == {0, 59, 60}

OrderFlowTables ==
    {TableOf(times, others) : times \in SUBSET OrderFlowTimes, others \in BOOLEAN}

OrderFlowTimeframes == {"1s", "1m", "60s"}

OrderFlowLimits == {0, 1, 2, 3}

TimeRanges == {<<0, 300>>, <<59, 60>>, <<60, 0>>}

InitOrderFlow ==
    /\ InitWS
    /\ market_data \in OrderFlowTables
    /\ volume_profile = << >>
    /\ cache = << >>
    /\ background = << >>
    /\ req = NoRequest
    /\ response = NoResponse
    /\ calls = 0
    /\ idem = NoIdem
    /\ result = NoResult
    /\ InitCache

GetCvd(symbol, timeframe, limit) ==
    /\ \E fetched \in BOOLEAN, draw \in Draws :
          LET r == get_cvd(market_data, symbol, timeframe, limit, fetched, draw)
          IN  result' = [op |-> "get_cvd", symbol |-> symbol, timeframe |-> timeframe,
                         limit |-> limit, fetched |-> fetched, path |-> r.path,
                         value |-> r.value]
    /\ UNCHANGED wsVars
    /\ UNCHANGED mdVars
    /\ UNCHANGED cacheVars

GetCvdData(symbol, timeframe, range) ==
    /\ result' = [op |-> "get_cvd_data", symbol |-> symbol, timeframe |-> timeframe,
                  start_time |-> range[1], end_time |-> range[2], path |-> "rows",
                  value |-> get_cvd_data(market_data, symbol, timeframe, range[1], range[2])]
    /\ UNCHANGED wsVars
    /\ UNCHANGED mdVars
    /\ UNCHANGED cacheVars

GetFootprint(symbol, timeframe, limit) ==
    /\ \E fetched \in BOOLEAN, draw \in FootprintDraws :
          LET r == get_footprint(market_data, symbol, timeframe, limit, fetched, draw)
          IN  result' = [op |-> "get_footprint", symbol |-> symbol,
                         timeframe |-> timeframe, limit |-> limit, fetched |-> fetched,
                         path |-> r.path, value |-> r.value]
    /\ UNCHANGED wsVars
    /\ UNCHANGED mdVars
    /\ UNCHANGED cacheVars

NextOrderFlow ==
    \/ \E symbol \in QuerySymbols, timeframe \in OrderFlowTimeframes, limit \in OrderFlowLimits :
          GetCvd(symbol, timeframe, limit)
    \/ \E symbol \in QuerySymbols, timeframe \in OrderFlowTimeframes, range \in TimeRanges :
          GetCvdData(symbol, timeframe, range)

SpecOrderFlow == InitOrderFlow /\ [][NextOrderFlow]_vars

\* the ratio thresholds asked for (the default is 3.0)
Ratios == {2, 3}

\* OrderFlowService.detect_imbalances(symbol, timeframe, limit, ratio); an
\* exception it raises leaves the endpoint as a failed request
DetectImbalances(symbol, timeframe, limit, ratio) ==
    /\ \E fetched \in BOOLEAN, draw \in FootprintDraws :
          LET footprints == get_footprint(market_data, symbol, timeframe, limit,
                                          fetched, draw).value
              r == detect_imbalances(footprints, ratio)
          IN  result' = [op |-> "detect_imbalances", symbol |-> symbol,
                         timeframe |-> timeframe, limit |-> limit, ratio |-> ratio,
                         footprints |-> footprints, raised |-> r.raised,
                         value |-> r.value]
    /\ UNCHANGED wsVars
    /\ UNCHANGED mdVars
    /\ UNCHANGED cacheVars

FootprintTimes == {0, 60}

\* a bar of a second without price movement: open = high = low = close
FlatRow(t) ==
    [SampleRow(t) EXCEPT !.open = SampleRow(t).close, !.high = SampleRow(t).close,
                         !.low = SampleRow(t).close]

\* the stored bars of FootprintTimes, the newest of them flat
FlatTable ==
    [k \in StoredKeys(FootprintTimes, FALSE) |->
        IF k[1] = 60 THEN FlatRow(k[1]) ELSE SampleRow(k[1])]

FootprintTables ==
    {TableOf(times, others) : times \in SUBSET FootprintTimes, others \in BOOLEAN}
        \cup {FlatTable}

FootprintTimeframes == {"1s", "1m"}

FootprintLimits == {0, 1, 2}

InitFootprint ==
    /\ InitWS
    /\ market_data \in FootprintTables
    /\ volume_profile = << >>
    /\ cache = << >>
    /\ background = << >>
    /\ req = NoRequest
    /\ response = NoResponse
    /\ calls = 0
    /\ idem = NoIdem
    /\ result = NoResult
    /\ InitCache

NextFootprint ==
    \/ \E symbol \in QuerySymbols, timeframe \in FootprintTimeframes, limit \in FootprintLimits :
          GetFootprint(symbol, timeframe, limit)
    \/ \E symbol \in QuerySymbols, timeframe \in FootprintTimeframes, limit \in FootprintLimits,
          ratio \in Ratios :
          DetectImbalances(symbol, timeframe, limit, ratio)

SpecFootprint == InitFootprint /\ [][NextFootprint]_vars

----------------------------------------------------------------------------
(* Volume profile queries                                                  *)

\* float('inf'), the buySellRatio of a level without bid volume
Infinity == "inf"

\* num_levels = 50
num_levels == 50

\* LIMIT 100 of the market_data query of get_session_profile
MarketRowLimit == 100

\* what random gives during one call of _generate_sample_volume_profile: the
\* level volumes random.uniform(1000, 10000) and the biases random.gauss(0,
\* 0.2) in hundredths, used in turn
ProfileDraws ==
    {[volumes |-> <<1000, 10000, 4000>>, bias |-> <<0, -40, 35>>],
     [volumes |-> <<5000, 5000>>, bias |-> <<10, 10>>]}

\* a / b in thousandths
PerMilleOf(a, b) ==
    IF a <= 2 * PerMille * PerMille
    THEN (a * PerMille) \div b
    ELSE ((a \div PerMille) * PerMille) \div (b \div PerMille)

\* one dict of a profile: percent of the total, ask/bid ratio and type
profile_level(price, volume, bid_volume, ask_volume, total_volume) ==
    LET buy_sell_ratio == IF bid_volume > 0 THEN (ask_volume * Scale) \div bid_volume
                          ELSE Infinity
    IN  [price |-> price,
         volume |-> volume,
         bidVolume |-> bid_volume,
         askVolume |-> ask_volume,
         percent |-> IF total_volume > 0
                     THEN ((volume * PerMille) \div total_volume) * ((Percent * Scale) \div PerMille)
                     ELSE 0,
         buySellRatio |-> buy_sell_ratio,
         type |-> IF bid_volume <= 0 THEN "ask"
                  ELSE IF buy_sell_ratio > (6 * Scale) \div 5 THEN "ask"
                  ELSE IF buy_sell_ratio < (4 * Scale) \div 5 THEN "bid"
                  ELSE "neutral"]

\* SUM(column) over rows of the volume_profile table
RECURSIVE ProfileSum(_, _, _)
ProfileSum(table, keys, column) ==
    IF keys = {} THEN 0
    ELSE LET k == CHOOSE x \in keys : TRUE
         IN  table[k][column] + ProfileSum(table, keys \ {k}, column)

\* the volume of the levels lo..hi of the sample profile
RECURSIVE SampleVolume(_, _, _)
SampleVolume(volume_of, lo, hi) ==
    IF lo > hi THEN 0
    ELSE IF lo = hi THEN volume_of[lo]
    ELSE SampleVolume(volume_of, lo, (lo + hi) \div 2)
             + SampleVolume(volume_of, ((lo + hi) \div 2) + 1, hi)

\* _generate_sample_volume_profile(symbol, market_data): fifty levels between
\* the lowest and highest close of the market rows, or around the base price
\* when there is none, sorted by price descending; the division by
\* max_price - min_price raises when all closes are equal
generate_sample_volume_profile(symbol, closes, draw) ==
    LET base == base_price(symbol) * (PriceUnit \div Scale)
        price_range == base \div Percent
        min_price == IF closes # {} THEN PriceUnit * MinOf(closes) ELSE base - price_range \div 2
        max_price == IF closes # {} THEN PriceUnit * MaxOf(closes) ELSE base + price_range \div 2
        price_step == (max_price - min_price) \div num_levels
        price_of(i) == min_price + i * price_step
        volume_of == [n \in 1..num_levels |->
                         LET distance_from_center ==
                                 PerMilleOf(Abs(price_of(n - 1) - base), max_price - min_price)
                             volume_weight ==
                                 Largest(PerMille \div 10, PerMille - distance_from_center * 2)
                         IN  ((Drawn(draw.volumes, n) * Scale) \div PerMille) * volume_weight]
        total_volume == SampleVolume(volume_of, 1, num_levels)
    IN  IF max_price = min_price
        THEN [raised |-> TRUE, value |-> << >>]
        ELSE [raised |-> FALSE,
              value |->
                  [idx \in 1..num_levels |->
                      LET n == num_levels + 1 - idx
                          ask_ratio == Largest(20, Smallest(80, 50 + Drawn(draw.bias, n)))
                          ask_volume == (volume_of[n] \div Percent) * ask_ratio
                          bid_volume == (volume_of[n] \div Percent) * (Percent - ask_ratio)
                      IN  profile_level(price_of(n - 1), volume_of[n], bid_volume,
                                        ask_volume, total_volume)]]

\* the loop of get_session_profile over the rows grouped by price_level,
\* highest price first
session_profile(table, keys) ==
    LET levels == Descending({k[4] : k \in keys})
        at(level) == {k \in keys : k[4] = level}
        total_volume == ProfileSum(table, keys, "volume")
    IN  [i \in 1..Len(levels) |->
            LET volume == Scale * ProfileSum(table, at(levels[i]), "volume")
                total_bid == Scale * ProfileSum(table, at(levels[i]), "bid_volume")
                total_ask == Scale * ProfileSum(table, at(levels[i]), "ask_volume")
                split == total_bid + total_ask = 0
            IN  profile_level(PriceUnit * levels[i], volume,
                              IF split THEN volume \div 2 ELSE total_bid,
                              IF split THEN volume \div 2 ELSE total_ask,
                              Scale * total_volume)]

\* get_session_profile: the levels summed from the volume_profile rows of the
\* symbol in [start_time, end_time]; a sample profile from the closes of the
\* market rows of the range when there is no such row, and a sample profile
\* from nothing when anything raises
get_session_profile(profile_table, market_table, symbol, start_time, end_time, fetched, draw) ==
    LET keys == {k \in DOMAIN profile_table :
                    k[2] = symbol /\ k[1] >= start_time /\ k[1] <= end_time}
        market_keys == {k \in DOMAIN market_table :
                           k[2] = symbol /\ k[1] >= start_time /\ k[1] <= end_time}
        market_rows == {k \in market_keys :
                           Cardinality({o \in market_keys : o[1] > k[1]}) < MarketRowLimit}
        sample == generate_sample_volume_profile(
                      symbol, {market_table[k].close : k \in market_rows}, draw)
    IN  IF fetched /\ keys # {}
        THEN [path |-> "rows", value |-> session_profile(profile_table, keys)]
        ELSE IF fetched /\ ~sample.raised
        THEN [path |-> "sample", value |-> sample.value]
        ELSE [path |-> "sample",
              value |-> generate_sample_volume_profile(symbol, {}, draw).value]

\* MarketDataService.get_volume_profile: the '1s' rows of the symbol in
\* [start_time, end_time] grouped by close, highest price first
get_volume_profile(table, symbol, start_time, end_time) ==
    LET keys == {k \in RowsOf(table, symbol, "1s") : k[1] >= start_time /\ k[1] <= end_time}
        prices == Descending({table[k].close : k \in keys})
        at(price) == {k \in keys : table[k].close = price}
    IN  [i \in 1..Len(prices) |->
            [price |-> prices[i],
             volume |-> SumColumn(table, at(prices[i]), "volume"),
             bid_volume |-> SumColumn(table, at(prices[i]), "bid_volume"),
             ask_volume |-> SumColumn(table, at(prices[i]), "ask_volume")]]

\* the bar update_volume_profile is called with after the row of second t
\* was stored
ProfiledBar(t) ==
    [timestamp |-> t, symbol |-> "EURUSD", close |-> SampleRow(t).close,
     volume |-> SampleRow(t).volume, bid_volume |-> SampleRow(t).bid_volume,
     ask_volume |-> SampleRow(t).ask_volume]

\* the volume_profile table after update_volume_profile ran for the rows of
\* the given seconds
RECURSIVE ProfileOf(_)
ProfileOf(times) ==
    IF times = {} THEN << >>
    ELSE UpsertVolumeProfile(ProfileOf(times \ {MaxOf(times)}), ProfiledBar(MaxOf(times)))

ProfileTimes == {0, 60, 61}

\* the stores the profile queries run against: every profiled bar was stored
InitProfile ==
    /\ InitWS
    /\ \E times \in SUBSET ProfileTimes, others \in BOOLEAN :
          /\ market_data = TableOf(times, others)
          /\ volume_profile \in {ProfileOf(profiled) : profiled \in SUBSET times}
    /\ cache = << >>
    /\ background = << >>
    /\ req = NoRequest
    /\ response = NoResponse
    /\ calls = 0
    /\ idem = NoIdem
    /\ result = NoResult
    /\ InitCache

\* VolumeProfileService.get_session_profile(symbol, start_time, end_time)
GetSessionProfile(symbol, range) ==
    /\ \E fetched \in BOOLEAN, draw \in ProfileDraws :
          LET r == get_session_profile(volume_profile, market_data, symbol,
                                       range[1], range[2], fetched, draw)
          IN  result' = [op |-> "get_session_profile", symbol |-> symbol,
                         start_time |-> range[1], end_time |-> range[2],
                         fetched |-> fetched, path |-> r.path, value |-> r.value]
    /\ UNCHANGED wsVars
    /\ UNCHANGED mdVars
    /\ UNCHANGED cacheVars

\* MarketDataService.get_volume_profile(symbol, start_time, end_time)
GetVolumeProfile(symbol, range) ==
    /\ result' = [op |-> "get_volume_profile", symbol |-> symbol,
                  start_time |-> range[1], end_time |-> range[2], fetched |-> TRUE,
                  path |-> "rows",
                  value |-> get_volume_profile(market_data, symbol, range[1], range[2])]
    /\ UNCHANGED wsVars
    /\ UNCHANGED mdVars
    /\ UNCHANGED cacheVars

NextProfile ==
    \/ \E symbol \in QuerySymbols, range \in TimeRanges : GetSessionProfile(symbol, range)
    \/ \E symbol \in QuerySymbols, range \in TimeRanges : GetVolumeProfile(symbol, range)

SpecProfile == InitProfile /\ [][NextProfile]_vars

----------------------------------------------------------------------------
(* The result cache: a function wrapped with cached(ttl, prefix), store_bar *)
(* and the passing of time                                                  *)

\* the prefix that the pattern f"market_data:{symbol}:*" of store_bar deletes
Prefix == "market_data"

\* the ttl the function is wrapped with
TTLs == {1, 2}

MaxClock == 3

MaxWrites == 1

\* the functions wrapped: one returns the bars of get_bars (rows with a
\* datetime), the other the list of their closes as floats
WrappedFunctions == {"bars", "closes"}

\* the calls made of a function f(symbol, timeframe="1m"): f("EURUSD", "1m"),
\* f("EURUSD:1m"), and the first with keyword arguments in either order
WrapperCalls ==
    {[args |-> <<<<"EURUSD">>, <<"1m">>>>, kwargs |-> << >>],
     [args |-> <<<<"EURUSD", "1m">>>>, kwargs |-> << >>],
     [args |-> << >>, kwargs |-> <<<<"symbol", <<"EURUSD">>>>, <<"timeframe", <<"1m">>>>>>],
     [args |-> << >>, kwargs |-> <<<<"timeframe", <<"1m">>>>, <<"symbol", <<"EURUSD">>>>>>]}

\* the string whose segments are given
Text(segments) ==
    CASE Len(segments) = 1 -> segments[1]
      [] segments = <<"EURUSD", "1m">> -> "EURUSD:1m"

\* the value a call binds to a parameter: positional, keyword or the default
Argument(call, name, position, default) ==
    IF Len(call.args) >= position THEN call.args[position]
    ELSE IF \E i \in 1..Len(call.kwargs) : call.kwargs[i][1] = name
    THEN call.kwargs[CHOOSE i \in 1..Len(call.kwargs) : call.kwargs[i][1] = name][2]
    ELSE default

\* result = await func(*args, **kwargs)
wrapped(func, call, table) ==
    LET bars == get_bars(table, Text(Argument(call, "symbol", 1, <<"">>)),
                         Text(Argument(call, "timeframe", 2, <<"1m">>)), DefaultLimit)
    IN  [type |-> "list",
         items |-> [i \in 1..Len(bars) |->
                       IF func = "bars"
                       THEN [kind |-> "row", time |-> bars[i].time, close |-> bars[i].close]
                       ELSE [kind |-> "float", value |-> bars[i].close]]]

\* history: a call of the wrapper has ended.  A call that missed starts a
\* pair; the next call with the same arguments ends it
Ended(h, call, outcome, returned) ==
    IF h.phase = "once" /\ h.call = call
    THEN [h EXCEPT !.phase = "twice", !.second = returned,
                   !.invoked = @ + (IF outcome = "hit" THEN 0 ELSE 1),
                   !.raised = @ \/ outcome = "raised"]
    ELSE IF outcome = "hit"
    THEN [NoHistory EXCEPT !.writes = h.writes]
    ELSE [NoHistory EXCEPT !.writes = h.writes, !.phase = "once", !.call = call,
                           !.first = returned, !.invoked = 1,
                           !.raised = outcome = "raised"]

\* history: the entry of the first call of the pair was deleted or expired
Disturbed(h, before, after) ==
    IF h.phase = "once" /\ wrapper_key(Prefix, h.call) \in DOMAIN before \ DOMAIN after
    THEN [h EXCEPT !.disturbed = TRUE]
    ELSE h

\* wrapper, up to the first await result: the key, redis_manager.get(key) and,
\* when a value is stored, return json.loads(cached_value)
WrapperGet(call) ==
    /\ wrapper.pc = "idle"
    /\ LET key == wrapper_key(Prefix, call)
       IN  IF key \in DOMAIN cache
           THEN /\ wrapper' = [wrapper EXCEPT !.call = call, !.key = key, !.outcome = "hit",
                                              !.returned = loads(cache[key].value),
                                              !.from = cache[key].call]
                /\ history' = Ended(history, call, "hit", loads(cache[key].value))
           ELSE /\ wrapper' = [wrapper EXCEPT !.pc = "miss", !.call = call, !.key = key,
                                              !.outcome = "none", !.returned = NoValue,
                                              !.from = NoCall]
                /\ UNCHANGED history
    /\ UNCHANGED <<market_data, volume_profile, cache, background, req, response, calls, idem>>
    /\ UNCHANGED <<clock, storing>>
    /\ UNCHANGED wsVars
    /\ UNCHANGED result

\* result = await func(*args, **kwargs): the function reads the store
WrapperInvoke ==
    /\ wrapper.pc = "miss"
    /\ wrapper' = [wrapper EXCEPT !.pc = "computed",
                                  !.value = wrapped(wrapper.func, wrapper.call, market_data),
                                  !.seen = 1..Len(history.writes)]
    /\ UNCHANGED mdVars
    /\ UNCHANGED <<clock, storing, history>>
    /\ UNCHANGED wsVars
    /\ UNCHANGED result

\* redis_manager.set(key, json.dumps(result), expire=ttl) and return result;
\* json.dumps raises before anything is stored
WrapperSet ==
    /\ wrapper.pc = "computed"
    /\ LET dumped == dumps(wrapper.value)
       IN  IF dumped.raised
           THEN /\ wrapper' = [wrapper EXCEPT !.pc = "idle", !.outcome = "raised",
                                              !.value = NoValue, !.seen = {}]
                /\ history' = Ended(history, wrapper.call, "raised", NoValue)
                /\ UNCHANGED cache
           ELSE /\ cache' = Put(cache, wrapper.key,
                                [value |-> dumped.text, expires |-> clock + wrapper.ttl,
                                 call |-> wrapper.call, seen |-> wrapper.seen])
                /\ wrapper' = [wrapper EXCEPT !.pc = "idle", !.outcome = "stored",
                                              !.returned = wrapper.value,
                                              !.value = NoValue, !.seen = {}]
                /\ history' = Ended(history, wrapper.call, "stored", wrapper.value)
    /\ UNCHANGED <<market_data, volume_profile, background, req, response, calls, idem>>
    /\ UNCHANGED <<clock, storing>>
    /\ UNCHANGED wsVars
    /\ UNCHANGED result

\* the bars store_bar is called with
StoredInputs == {BarPayload(s, Stamp("sierra", 59 + n), 1, 1) : s \in BarSymbols, n \in 1..MaxWrites}

\* store_bar, up to the return of the INSERT
StoreBarWrite(raw) ==
    /\ storing.pc = "idle"
    /\ Len(history.writes) < MaxWrites
    /\ market_data' = InsertOrUpdate(market_data, Key(Extract(raw)), Row(Extract(raw)))
    /\ storing' = [pc |-> "written", symbol |-> Extract(raw).symbol]
    /\ history' = [history EXCEPT
                      !.writes = Append(@, [symbol |-> Extract(raw).symbol,
                                            completed |-> None])]
    /\ UNCHANGED <<volume_profile, cache, background, req, response, calls, idem>>
    /\ UNCHANGED <<clock, wrapper>>
    /\ UNCHANGED wsVars
    /\ UNCHANGED result

\* the rest of store_bar: delete_pattern(f"market_data:{symbol}:*")
StoreBarInvalidate ==
    /\ storing.pc = "written"
    /\ cache' = delete_pattern(cache, storing.symbol)
    /\ storing' = NoStoring
    /\ history' = [Disturbed(history, cache, delete_pattern(cache, storing.symbol))
                      EXCEPT !.writes[Len(history.writes)].completed = clock]
    /\ UNCHANGED <<market_data, volume_profile, background, req, response, calls, idem>>
    /\ UNCHANGED <<clock, wrapper>>
    /\ UNCHANGED wsVars
    /\ UNCHANGED result

\* the entries Redis still holds at time t
Unexpired(table, t) == [k \in {x \in DOMAIN table : table[x].expires > t} |-> table[k]]

\* a second passes; Redis drops the keys whose expiry is reached
Tick ==
    /\ clock < MaxClock
    /\ clock' = clock + 1
    /\ cache' = Unexpired(cache, clock + 1)
    /\ history' = Disturbed(history, cache, Unexpired(cache, clock + 1))
    /\ UNCHANGED <<market_data, volume_profile, background, req, response, calls, idem>>
    /\ UNCHANGED <<wrapper, storing>>
    /\ UNCHANGED wsVars
    /\ UNCHANGED result

\* a function is wrapped with cached(ttl, prefix) at import time
InitWrapped ==
    /\ InitWS
    /\ InitMD
    /\ result = NoResult
    /\ clock = 0
    /\ \E func \in WrappedFunctions, ttl \in TTLs :
          wrapper = [pc |-> "idle", func |-> func, ttl |-> ttl, call |-> NoCall,
                     key |-> << >>, value |-> NoValue, seen |-> {},
                     returned |-> NoValue, from |-> NoCall, outcome |-> "none"]
    /\ storing = NoStoring
    /\ history = NoHistory

NextCache ==
    \/ \E call \in WrapperCalls : WrapperGet(call)
    \/ WrapperInvoke
    \/ WrapperSet
    \/ \E raw \in StoredInputs : StoreBarWrite(raw)
    \/ StoreBarInvalidate
    \/ Tick

SpecCache == InitWrapped /\ [][NextCache]_vars


----------------------------------------------------------------------------
(* Properties of the subscription registry and the broadcaster             *)

Registered(c) == c \in DOMAIN socket_subscriptions

ListedUnder(c, s) == c \in Subscribers(active_connections, s)

Recorded(c, s) == Registered(c) /\ s \in socket_subscriptions[c]

\* C1: after any sequence of connect, subscribe, unsubscribe and disconnect
\* calls, ws is in active_connections[s] iff s is in socket_subscriptions[ws].
C1_BidirectionalIndex ==
    \A c \in Conns, s \in Symbols : ListedUnder(c, s) <=> Recorded(c, s)

\* C2: once the handler of a connection has ended, for whatever reason, the
\* connection is in no symbol's subscriber set and has no record of its own.
C2_EndedHandlerDisconnected ==
    \A c \in Conns :
        pc[c] = "ended" =>
            /\ ~Registered(c)
            /\ \A s \in Symbols : ~ListedUnder(c, s)

\* C3: no key of active_connections maps to an empty set.
C3_NoEmptySubscriberSet ==
    \A s \in DOMAIN active_connections : active_connections[s] # {}

\* C4: a broadcast sends exactly once to each connection subscribed to the
\* symbol when the call starts and to no other connection, whatever
\* subscribe, unsubscribe and disconnect calls run during the delivery, and
\* it does not fail; after unsubscribe(c, [s]) the connection is no longer a
\* target of a broadcast for s.
C4_DuringDelivery ==
    \A c \in Conns :
        /\ bc.sent[c] <= (IF c \in bc.subscribed THEN 1 ELSE 0)
        /\ c \in bc.pending => c \in bc.subscribed /\ bc.sent[c] = 0

C4_AtReturn ==
    bc.state = "done" =>
        /\ ~bc.raised
        /\ \A c \in Conns : bc.sent[c] = (IF c \in bc.subscribed THEN 1 ELSE 0)

C4_AfterUnsubscribe ==
    \A c \in Conns, l \in SymLists :
        LET r == unsubscribe(active_connections, socket_subscriptions, c, l)
        IN  \A i \in 1..Len(l) : c \notin BroadcastTargets(r.ac, l[i])

C4_BroadcastDelivery ==
    C4_DuringDelivery /\ C4_AtReturn /\ C4_AfterUnsubscribe

\* C4 witness: a broadcast to a subscriber returned after one send to it,
\* while another connection joined the symbol after the call had started.
C4_Witness ==
    /\ bc.state = "done"
    /\ \E c \in bc.subscribed : bc.sent[c] = 1
    /\ \E d \in Conns \ bc.subscribed : ListedUnder(d, bc.symbol) /\ bc.sent[d] = 0

\* C5: when a send raises during a broadcast, every other subscriber is
\* still sent the message, nothing propagates to the caller, no send is
\* repeated, and the broadcast leaves both registry dicts unchanged.
C5_AtReturn ==
    (bc.state = "done" /\ bc.failed # {}) =>
        /\ ~bc.raised
        /\ \A c \in bc.subscribed : bc.sent[c] = 1

C5_NoRetry == \A c \in Conns : bc.sent[c] <= 1

C5_RegistryUntouched ==
    bc' # bc => UNCHANGED <<active_connections, socket_subscriptions>>

C5_SendFailureIsolated ==
    /\ [](C5_AtReturn /\ C5_NoRetry)
    /\ [][C5_RegistryUntouched]_vars

\* C5 witness: a finished broadcast in which one send failed and another
\* subscriber was sent the message.
C5_Witness ==
    /\ bc.state = "done"
    /\ bc.failed # {}
    /\ \E c \in bc.subscribed \ bc.failed : bc.sent[c] = 1

\* C6: disconnect(ws) leaves ws in no subscriber set and without a record,
\* a repeated disconnect(ws) changes nothing more, and the subscriptions of
\* every other connection are as before.
C6_AfterDisconnect(c) ==
    /\ c \notin DOMAIN socket_subscriptions'
    /\ \A s \in Symbols : c \notin Subscribers(active_connections', s)
    /\ LET again == disconnect(active_connections', socket_subscriptions', c)
       IN  /\ ~again.raised
           /\ again.ac = active_connections'
           /\ again.ss = socket_subscriptions'
    /\ \A d \in Conns \ {c} :
          /\ (d \in DOMAIN socket_subscriptions') <=> (d \in DOMAIN socket_subscriptions)
          /\ d \in DOMAIN socket_subscriptions =>
                socket_subscriptions'[d] = socket_subscriptions[d]
          /\ \A s \in Symbols :
                (d \in Subscribers(active_connections', s))
                    <=> (d \in Subscribers(active_connections, s))

C6_DisconnectRemovesEverywhere ==
    [][\A c \in Conns : Disconnect(c) => C6_AfterDisconnect(c)]_vars

----------------------------------------------------------------------------
(* Properties of the ingestion path                                        *)

\* C7: ingesting the same bar twice through receive_market_data leaves the
\* market_data and volume_profile tables as they were after ingesting it once.
C7_IngestIdempotent ==
    (idem.phase = "twice" /\ idem.raw \in ValidBars) =>
        /\ market_data = idem.market_data
        /\ volume_profile = idem.volume_profile

\* a result of get_bars holds a bar at B's time with B's OHLCV
Returned(B, bars) ==
    \E i \in 1..Len(bars) :
        /\ bars[i].time = B.timestamp
        /\ bars[i].open = B.open /\ bars[i].high = B.high /\ bars[i].low = B.low
        /\ bars[i].close = B.close /\ bars[i].volume = B.volume

\* the bars written by the last ingestion, nothing having been written since
LastWritten ==
    IF req # NoRequest THEN <<req.bar>>
    ELSE IF response.status = "success" THEN response.bars
    ELSE << >>

\* the last bar of the call for its key
LastOfKey(bars, i) == \A j \in (i + 1)..Len(bars) : Key(bars[j]) # Key(bars[i])

\* C8, for the base resolution and the default limit: after a bar B is
\* ingested by store_bar or by store_batch, whether or not a bar with its
\* key existed, get_bars(B.symbol, '1s', 500) returns a bar at B.time with
\* B's open, high, low, close and volume (last write wins).
C8_RoundTrip ==
    \A i \in 1..Len(LastWritten) :
        LET B == LastWritten[i]
        IN  (B.timeframe = "1s" /\ LastOfKey(LastWritten, i)) =>
                Returned(B, get_bars(market_data, B.symbol, "1s", DefaultLimit))

\* the symbol a cache key is for
KeyedBy(key, symbol) == key[2] = symbol

\* a step in which an ingestion call answers with success
AnswersSuccess ==
    /\ response'.status = "success"
    /\ \/ calls' = calls + 1 /\ req' = req
       \/ req # NoRequest /\ req' = NoRequest

\* C9: when a write of bars for symbol S has succeeded, by store_bar or by
\* store_batch, no cache entry keyed by S from before the write is left.
C9_CacheInvalidatedOnWrite ==
    [][AnswersSuccess =>
         \A i \in 1..Len(response'.bars), key \in DOMAIN cache :
             KeyedBy(key, response'.bars[i].symbol) => key \notin DOMAIN cache']_vars

\* C10: a payload that fails validation is answered with an error and
\* changes nothing: no row written, no cache key deleted, no task added.
C10_InvalidPayloadRejected ==
    [][\A raw \in InvalidPayloads :
          ReceiveStore(raw) =>
              /\ response'.status = "error"
              /\ req' = NoRequest
              /\ UNCHANGED <<market_data, volume_profile, cache, background>>]_vars

----------------------------------------------------------------------------
(* Properties of the post-ingestion steps                                  *)

\* a step of a background task or of a subscriber send
PostIngestionStep ==
    \/ \E i \in 1..MaxCalls : RunAggregate(i)
    \/ \E i \in 1..MaxCalls : RunUpdateVolumeProfile(i)
    \/ \E i \in 1..MaxCalls : RunBroadcastTick(i)
    \/ \E c \in Conns : BroadcastSend(c)
    \/ BroadcastReturn

\* the call that has written its bar answers with success having enqueued
\* one set of tasks for that bar, and no send has been made by then
C11_ReturnsAfterEnqueue ==
    (ReceiveFinish /\ response'.status = "success") =>
        /\ background' = Append(background, [bar |-> req.bar, next |-> 1])
        /\ response'.bars = <<req.bar>>
        /\ bc' = bc
        /\ market_data' = market_data

\* a post-ingestion step, failed or not, leaves the answer and the bars alone
C11_PostIngestionHarmless ==
    PostIngestionStep => (response' = response /\ market_data' = market_data)

----------------------------------------------------------------------------
(* Properties of get_bars                                                  *)

\* the duration a timeframe string stands for; one minute when not listed
Duration(timeframe) ==
    CASE timeframe = "1m" -> Minute
      [] timeframe = "5m" -> 5 * Minute
      [] timeframe = "15m" -> 15 * Minute
      [] timeframe = "1h" -> 60 * Minute
      [] timeframe = "4h" -> 240 * Minute
      [] timeframe = "1d" -> 1440 * Minute
      [] OTHER -> Minute

\* the times of the stored base-resolution bars of a symbol
BaseTimes(symbol) ==
    {k[1] : k \in {x \in DOMAIN market_data : x[2] = symbol /\ x[3] = "1s"}}

BaseBar(symbol, t) == market_data[<<t, symbol, "1s">>]

\* the base bars of the bucket [b, b + d)
Contributing(symbol, b, d) == {t \in BaseTimes(symbol) : b <= t /\ t < b + d}

\* the epoch-aligned buckets of duration d holding a base bar
NonEmptyBuckets(symbol, d) == {t - (t % d) : t \in BaseTimes(symbol)}

\* the n greatest members of S
Newest(S, n) == {x \in S : Cardinality({y \in S : y > x}) < n}

Earliest(S) == CHOOSE x \in S : \A y \in S : x <= y

Latest(S) == CHOOSE x \in S : \A y \in S : y <= x

\* the sum of an integer-valued f over a finite set of integers
RECURSIVE SetSum(_, _)
SetSum(f, S) ==
    IF S = {} THEN 0
    ELSE IF Cardinality(S) = 1 THEN f[CHOOSE x \in S : TRUE]
    ELSE LET lower == {x \in S : 2 * Cardinality({y \in S : y < x}) < Cardinality(S) - 1}
         IN  SetSum(f, lower) + SetSum(f, S \ lower)

\* the sum of a column over the base bars at `times`; NULLs do not count and
\* the sum of NULLs only is NULL
ColumnSum(symbol, times, column) ==
    LET known == {t \in times : BaseBar(symbol, t)[column] # None}
    IN  IF known = {} THEN None
        ELSE SetSum([t \in known |-> BaseBar(symbol, t)[column]], known)

\* bar is the aggregate of the base bars of bucket b
AggregateOf(bar, symbol, b, d) ==
    LET T == Contributing(symbol, b, d)
    IN  /\ T # {}
        /\ bar.time = b
        /\ bar.open = BaseBar(symbol, Earliest(T)).open
        /\ bar.close = BaseBar(symbol, Latest(T)).close
        /\ \A t \in T : BaseBar(symbol, t).high <= bar.high
        /\ \E t \in T : BaseBar(symbol, t).high = bar.high
        /\ \A t \in T : bar.low <= BaseBar(symbol, t).low
        /\ \E t \in T : BaseBar(symbol, t).low = bar.low
        /\ bar.volume = ColumnSum(symbol, T, "volume")
        /\ bar.bid_volume = ColumnSum(symbol, T, "bid_volume")
        /\ bar.ask_volume = ColumnSum(symbol, T, "ask_volume")
        /\ bar.number_of_trades = ColumnSum(symbol, T, "number_of_trades")
        /\ bar.open_interest = BaseBar(symbol, Latest(T)).open_interest

Times(bars) == {bars[i].time : i \in 1..Len(bars)}

OnePerTime(bars) == \A i, j \in 1..Len(bars) : bars[i].time = bars[j].time => i = j

Aggregated == result.op = "get_bars" /\ result.timeframe # "1s"

\* every base bar lies in exactly one bucket
OneBucketEach(symbol, d) ==
    \A t \in BaseTimes(symbol) :
        Cardinality({b \in NonEmptyBuckets(symbol, d) : t \in Contributing(symbol, b, d)}) = 1

RunQueried(start) ==
    /\ market_data = RunTable(start)
    /\ result.op = "get_bars" /\ result.symbol = "EURUSD" /\ result.timeframe = "1m"
    /\ result.limit >= 1

\* the one bar made of the sixty seconds from `start` on
OneBarOfRun(bars, start) ==
    LET T == start..(start + RunLength - 1)
    IN  /\ Len(bars) = 1
        /\ bars[1].open = BaseBar("EURUSD", start).open
        /\ bars[1].close = BaseBar("EURUSD", start + RunLength - 1).close
        /\ \A t \in T : BaseBar("EURUSD", t).high <= bars[1].high
        /\ \E t \in T : BaseBar("EURUSD", t).high = bars[1].high
        /\ \A t \in T : bars[1].low <= BaseBar("EURUSD", t).low
        /\ \E t \in T : BaseBar("EURUSD", t).low = bars[1].low
        /\ bars[1].volume = ColumnSum("EURUSD", T, "volume")

\* C13: for any 60 consecutive one-second bars of a symbol, whatever second
\* the run starts at, get_bars(symbol, '1m', limit) yields exactly one bar
\* with the first open, the last close, the maximum high, the minimum low
\* and the sum of the volumes.
C13_OneMinuteBar ==
    \A start \in RunStarts : RunQueried(start) => OneBarOfRun(result.bars, start)

\* C13 amended: the same for a run that starts on a minute boundary.
C13_AlignedMinuteBar ==
    \A start \in RunStarts :
        (RunQueried(start) /\ start % RunLength = 0) => OneBarOfRun(result.bars, start)

C13_Witness ==
    \E start \in RunStarts :
        RunQueried(start) /\ start % RunLength = 0 /\ start > 0 /\ Len(result.bars) = 1

\* what a query can return: the stored bars of the base resolution, or the
\* buckets holding one of them
Available ==
    IF result.timeframe = "1s"
    THEN BaseTimes(result.symbol)
    ELSE NonEmptyBuckets(result.symbol, Duration(result.timeframe))

\* C14: for every symbol, timeframe and limit >= 0, get_bars returns at most
\* `limit` bars, newest first in strictly descending time order, and they
\* are the `limit` most recent bars (base resolution) or buckets (aggregated)
\* available.
C14_NewestFirstWithinLimit ==
    result.op = "get_bars" =>
        /\ Len(result.bars) <= result.limit
        /\ \A i, j \in 1..Len(result.bars) :
               i < j => result.bars[i].time > result.bars[j].time
        /\ Times(result.bars) = Newest(Available, result.limit)

\* the limit cuts older bars off
C14_Witness ==
    /\ result.op = "get_bars"
    /\ result.limit = 2 /\ Len(result.bars) = 2
    /\ Cardinality(Available) > 2

----------------------------------------------------------------------------
(* Properties of the order-flow analytics                                  *)

\* each cumulative value is the one before it (zero before the first) plus
\* the point's own delta
Folded(points, cumulative) ==
    \A i \in 1..Len(points) :
        points[i][cumulative] =
            (IF i = 1 THEN 0 ELSE points[i - 1][cumulative]) + points[i].delta

\* C15: in every sequence of points returned by get_cvd or get_cvd_data, also
\* when the store holds no rows or raises, the first cumulative delta is the
\* first delta and every later one is the previous cumulative delta plus the
\* point's delta.
C15_CumulativeIsFoldOfDeltas ==
    /\ result.op = "get_cvd" => Folded(result.value, "cumulativeDelta")
    /\ result.op = "get_cvd_data" => Folded(result.value, "cumulative_delta")

\* the bars the timeframe aggregator gives for the query, oldest first
BarsOfQuery ==
    Reverse(get_bars(market_data, result.symbol, result.timeframe, result.limit))

\* C16: the points of get_cvd(symbol, timeframe, limit) correspond one to one
\* to the bars of get_bars(symbol, timeframe, limit), with the same times in
\* strictly ascending order and delta = ask_volume - bid_volume of the bar;
\* for a coarser timeframe derived from 1s bars there is one point per
\* aggregated bucket.  Stated for a fetch that succeeds and a query that has
\* bars, and for the delta of bars that carry a bid or ask volume.
C16_CvdFollowsAggregator ==
    (result.op = "get_cvd" /\ result.fetched /\ BarsOfQuery # << >>) =>
        /\ Len(result.value) = Len(BarsOfQuery)
        /\ \A i \in 1..Len(result.value) :
               /\ i <= Len(BarsOfQuery)
               /\ result.value[i].time = BarsOfQuery[i].time
               /\ i > 1 => result.value[i - 1].time < result.value[i].time
               /\ LET bid == OrZeroColumn(BarsOfQuery[i].bid_volume)
                      ask == OrZeroColumn(BarsOfQuery[i].ask_volume)
                  IN  (bid # 0 \/ ask # 0) => result.value[i].delta = Scale * (ask - bid)

\* the sum of totalVolume over the levels lo..hi of a footprint
RECURSIVE LevelVolume(_, _, _)
LevelVolume(levels, lo, hi) ==
    IF lo > hi THEN 0
    ELSE IF lo = hi THEN levels[lo].totalVolume
    ELSE LevelVolume(levels, lo, (lo + hi) \div 2)
             + LevelVolume(levels, ((lo + hi) \div 2) + 1, hi)

\* the levels of a footprint emitted for the bar of one time
LevelsAt(levels, time) == SelectSeq(levels, LAMBDA l : l.timestamp = time)

\* a hundredth of a volume unit
Tolerance == VolumeUnit \div 100

Within(x, y) == Abs(x - y) <= Tolerance

\* C17: for every bar processed by get_footprint, the totalVolume of the
\* levels emitted for the bar sums to the volume of the bar, and on every
\* level bidVolume + askVolume is the totalVolume of the level, both within
\* tolerance.
C17_LevelsConserveVolume ==
    (result.op = "get_footprint" /\ result.path = "rows") =>
        /\ \A b \in 1..Len(RawBars(market_data, result.symbol, result.timeframe,
                                   result.limit)) :
              LET bar == RawBars(market_data, result.symbol, result.timeframe,
                                 result.limit)[b]
                  levels == LevelsAt(result.value, bar.time)
              IN  Within(LevelVolume(levels, 1, Len(levels)),
                         VolumeUnit * (IF bar.volume \in {None, 0} THEN 1000 ELSE bar.volume))
        /\ \A i \in 1..Len(result.value) :
              Within(result.value[i].bidVolume + result.value[i].askVolume,
                     result.value[i].totalVolume)

\* every level of a footprint splits its volume between bid and ask
C17_LevelSplit ==
    (result.op = "get_footprint") =>
        \A i \in 1..Len(result.value) :
            Within(result.value[i].bidVolume + result.value[i].askVolume,
                   result.value[i].totalVolume)

\* the times of the bars of a footprint
FootprintBars(footprints) == {footprints[i].timestamp : i \in 1..Len(footprints)}

\* the levels of one bar of a footprint, highest price first
LevelsDescending(footprints, time) ==
    LET levels == LevelsAt(footprints, time)
    IN  [i \in 1..Len(levels) |->
            CHOOSE l \in {levels[k] : k \in 1..Len(levels)} :
                Cardinality({k \in 1..Len(levels) : levels[k].price > l.price}) = i - 1]

BuyImbalance(curr, next_level, ratio) ==
    curr.askVolume > next_level.bidVolume * ratio /\ curr.askVolume > 0 /\ next_level.bidVolume > 0

SellImbalance(curr, next_level, ratio) ==
    next_level.bidVolume > curr.askVolume * ratio /\ next_level.bidVolume > 0 /\ curr.askVolume > 0

\* C18: detect_imbalances reports, for every bar of the footprint with its
\* levels by descending price and every adjacent pair (current above next), a
\* buy imbalance iff current.ask > next.bid * ratio with both positive and a
\* sell imbalance iff next.bid > current.ask * ratio with both positive, each
\* test on its own, and a bar is in the result iff one of its pairs qualifies.
C18_ImbalancesReported ==
    (result.op = "detect_imbalances") =>
        /\ ~result.raised
        /\ \A time \in FootprintBars(result.footprints) :
              LET levels == LevelsDescending(result.footprints, time)
                  reported == {i \in 1..Len(result.value) : result.value[i].timestamp = time}
                  has(i, kind, price) ==
                      \E r \in reported :
                          \E k \in 1..Len(result.value[r].imbalances) :
                              /\ result.value[r].imbalances[k].type = kind
                              /\ result.value[r].imbalances[k].price = price
              IN  /\ \A i \in 1..(Len(levels) - 1) :
                         /\ has(i, "buy", levels[i].price)
                                <=> BuyImbalance(levels[i], levels[i + 1], result.ratio)
                         /\ has(i, "sell", levels[i + 1].price)
                                <=> SellImbalance(levels[i], levels[i + 1], result.ratio)
                  /\ (reported # {}) <=>
                         \E i \in 1..(Len(levels) - 1) :
                             \/ BuyImbalance(levels[i], levels[i + 1], result.ratio)
                             \/ SellImbalance(levels[i], levels[i + 1], result.ratio)

\* the queries that answer with analytics, and the keys of their data
AnalyticsQueries == {"get_cvd", "get_footprint", "get_session_profile"}

DataFields ==
    {"time", "timestamp", "price", "delta", "cumulativeDelta", "volume", "bidVolume",
     "askVolume", "imbalanceRatio", "totalVolume", "percent", "buySellRatio", "type"}

\* a dict carries a marker when it has a key that is not one of the data keys
Marked(item) == DOMAIN item \ DataFields # {}

\* C19: every analytics result of a sample or synthetic path (sample CVD,
\* sample footprint levels, sample volume profile) carries a marker that a
\* result computed from stored data never carries.
C19_SampleResultsMarked ==
    (result.op \in AnalyticsQueries) =>
        \A i \in 1..Len(result.value) :
            Marked(result.value[i]) <=> (result.path = "sample")

ProfileQueries == {"get_session_profile", "get_volume_profile"}

ProfileFields == {"point_of_control", "value_area_low", "value_area_high"}

\* the highest price among the levels of maximum volume
MaxVolumePrice(levels) ==
    MaxOf({levels[i].price : i \in {k \in 1..Len(levels) :
              \A o \in 1..Len(levels) : levels[o].volume <= levels[k].volume}})

\* C20: the volume profile returned for a time range identifies a point of
\* control that is the highest-priced level of maximum summed volume, with
\* value_area_low <= point_of_control <= value_area_high.  Stated for a
\* profile computed from stored rows with at least one level, whose dicts are
\* the only place the list the queries return can carry the three values.
C20_PointOfControl ==
    (result.op \in ProfileQueries /\ result.path = "rows" /\ result.value # << >>) =>
        \E i \in 1..Len(result.value) :
            /\ ProfileFields \subseteq DOMAIN result.value[i]
            /\ result.value[i].point_of_control = MaxVolumePrice(result.value)
            /\ result.value[i].value_area_low <= result.value[i].point_of_control
            /\ result.value[i].point_of_control <= result.value[i].value_area_high

\* C21: no read path returns an empty success for a symbol that has no data:
\* it signals an error or returns non-empty fallback data.  Stated for
\* get_bars asked for one bar at least of a symbol without a stored
\* base-resolution bar.
C21_NoEmptySuccess ==
    (result.op = "get_bars" /\ result.limit >= 1 /\ BaseTimes(result.symbol) = {}) =>
        result.bars # << >>

\* the timeframe strings some table of the code knows
RecognisedTimeframes == {"1s", "1m", "5m", "15m", "30m", "1h", "4h", "1d"}

\* C22: a query whose timeframe is not a recognised timeframe or whose limit
\* is not a positive integer is rejected before any store access, so get_bars
\* answers with bars only for well-formed parameters.
C22_MalformedRejected ==
    (result.op = "get_bars") =>
        /\ result.timeframe \in RecognisedTimeframes
        /\ result.limit >= 1

\* the seconds of a timeframe: 60, 300, 900, 3600, 14400 and 86400 for '1m',
\* '5m', '15m', '1h', '4h' and '1d', and 60 for every other string
BucketSeconds(timeframe) ==
    CASE timeframe = "1m" -> 60
      [] timeframe = "5m" -> 300
      [] timeframe = "15m" -> 900
      [] timeframe = "1h" -> 3600
      [] timeframe = "4h" -> 14400
      [] timeframe = "1d" -> 86400
      [] OTHER -> 60

InBucket(symbol, b, d, start_time, end_time) ==
    {t \in Contributing(symbol, b, d) : start_time <= t /\ t <= end_time}

\* a column is absent or zero on all the bars at `times`
NoneOrZero(symbol, times, column) ==
    \A t \in times : BaseBar(symbol, t)[column] \in {None, 0}

\* C24: no CVD operation emits a zero delta for a bar or bucket that has
\* nonzero volume but absent or zero bid_volume and ask_volume.  Stated for
\* the buckets of get_cvd_data.
C24_NoZeroDelta ==
    (result.op = "get_cvd_data") =>
        \A i \in 1..Len(result.value) :
            LET T == InBucket(result.symbol, result.value[i].time,
                              parse_timeframe(result.timeframe),
                              result.start_time, result.end_time)
            IN  (/\ OrZeroColumn(ColumnSum(result.symbol, T, "volume")) # 0
                 /\ NoneOrZero(result.symbol, T, "bid_volume")
                 /\ NoneOrZero(result.symbol, T, "ask_volume"))
                    => result.value[i].delta # 0


----------------------------------------------------------------------------
(* Properties of the result cache                                          *)

\* C25: two sequential calls of a wrapped function with the same arguments,
\* within ttl and with no deletion in between, invoke the function exactly
\* once, raise nothing and return equal results
C25_ReadThrough ==
    (history.phase = "twice" /\ ~history.disturbed)
        => /\ history.invoked = 1
           /\ ~history.raised
           /\ history.first = history.second

\* the values a call binds to the parameters of the wrapped function
Bound(call) ==
    [symbol |-> Argument(call, "symbol", 1, <<"">>),
     timeframe |-> Argument(call, "timeframe", 2, <<"1m">>)]

\* C26: a call that is answered from the cache reads a result that was stored
\* by a call with the same argument values
C26_KeyPerArguments ==
    (wrapper.pc = "idle" /\ wrapper.outcome = "hit")
        => Bound(wrapper.from) = Bound(wrapper.call)

\* the completed ingestions whose write the entry under `key` was computed
\* without, for the symbol the entry was computed for
MissedWrites(key) ==
    {n \in 1..Len(history.writes) :
        /\ history.writes[n].completed # None
        /\ history.writes[n].symbol = Text(Bound(cache[key].call).symbol)
        /\ n \notin cache[key].seen}

\* C27: an entry computed from the store as it was before an ingestion's write
\* is no longer served more than ttl after that ingestion completed
C27_StalenessBounded ==
    \A key \in DOMAIN cache : \A n \in MissedWrites(key) :
        clock <= history.writes[n].completed + wrapper.ttl

----------------------------------------------------------------------------
(* Properties of the footprint as the imbalance scan's input               *)

\* C28: detect_imbalances returns normally for every value get_footprint
\* returns for limit >= 1
C28_DetectReturns ==
    (result.op = "detect_imbalances" /\ result.limit >= 1) => ~result.raised

\* the bars the store returns to the query of get_footprint
FetchedBars ==
    IF result.op = "get_footprint" /\ result.fetched /\ result.limit >= 0
    THEN RawBars(market_data, result.symbol, result.timeframe, result.limit)
    ELSE << >>

\* C29: when the store returns at least one bar, get_footprint does not switch
\* to sample data, and every level it returns carries the timestamp of one of
\* those bars and a price within that bar's [low, high], also when a stored
\* bar has high equal to low
C29_LevelsOfStoredBars ==
    FetchedBars # << >> =>
        /\ result.path = "rows"
        /\ \A i \in 1..Len(result.value) :
              \E b \in 1..Len(FetchedBars) :
                 /\ result.value[i].timestamp = FetchedBars[b].time
                 /\ result.value[i].price >= PriceUnit * FetchedBars[b].low
                 /\ result.value[i].price <= PriceUnit * FetchedBars[b].high

----------------------------------------------------------------------------
(* Properties of the post-ingestion tasks under a fair event loop          *)

\* the tasks of a stored bar of symbol s are queued
Queued(s) == \E i \in 1..Len(background) : background[i].bar.symbol = s

\* broadcast_to_symbol has been called for symbol s
Attempted(s) == bc.symbol = s /\ bc.state # "idle"

\* C30: once receive_market_data has stored a bar and queued its tasks, the
\* broadcast for the bar's symbol is eventually attempted, whether or not
\* update_volume_profile raises
C30_BroadcastEventually ==
    \A s \in BarSymbols : Queued(s) ~> Attempted(s)

====
